---- MODULE Spec2Model ----
(***************************************************************************)
(* A model of the favicon resolution engine of theca                       *)
(* (server/internal/utils/parsers/favicon.go), of its batch caller         *)
(* (BookmarkHTMLParser.fetchFaviconsParallel) and of the bookmark          *)
(* operations of the service layer that call it.                           *)
(*                                                                         *)
(* Strings that the code takes apart (URLs) are records of their parts;    *)
(* strings that the code only builds are built with \o.  Every network     *)
(* answer and every Redis answer is chosen by the environment.             *)
(***************************************************************************)
EXTENDS Naturals, Sequences, FiniteSets, TLC

\* ------------------------------------------------------------------------
\* Bounds of the model (not program constants)
\* ------------------------------------------------------------------------
\* how many bookmarks the repository holds at most
MaxStore == 2
\* how many <link> elements a page of the candidate study holds at most
MaxLinks == 3
\* how many records an ImportBookmarksV2 request holds at most
MaxImport == 2
\* how many records a parsed bookmark file holds at most
MaxBatch == 2
\* how many records the semaphore model spawns tasks for
PoolTasks == 12

\* ------------------------------------------------------------------------
\* Program constants
\* ------------------------------------------------------------------------
StatusOK == 200
MaxRedirects == 10
SemCap == 10

\* ------------------------------------------------------------------------
\* URLs
\* ------------------------------------------------------------------------
\* A URL string as the code sees it: pre is the "http://" or "https://" prefix
\* (or "" when the string has none), host and path are what url.Parse finds
\* after the prefix, ok says whether url.Parse accepts the prefixed string.
Url(pre, host, path, ok) == [pre |-> pre, host |-> host, path |-> path, ok |-> ok]

U_gh == Url("", "github.com", "/x", TRUE)
U_ghw == Url("https://", "www.GitHub.com", "", TRUE)
U_ex1 == Url("https://", "example.com", "/page", TRUE)
U_ex2 == Url("", "example.com", "", TRUE)
U_bad == Url("", "exa mple.com", "", FALSE)
U_empty == Url("", "", "", TRUE)

\* the URLs users submit
InputURLs == {U_gh, U_ghw, U_ex1, U_ex2, U_bad}

\* where the page fetch may be redirected to
T_cdn == Url("https://", "cdn.example.net", "/home", TRUE)
T_login == Url("https://", "example.com", "/login", TRUE)
T_google == Url("https://", "accounts.google.com", "/ServiceLogin", TRUE)
RedirectTargets == {T_cdn, T_login, T_google}

\* the string of a URL
Str(u) == u.pre \o u.host \o u.path

\* strings.Contains on the parts the model's URLs are made of
SubstringTable ==
  { <<"/login", "login">>,
    <<"accounts.google.com", "accounts.google.com">> }

Contains(u, sub) == \E part \in {u.pre, u.host, u.path} : <<part, sub>> \in SubstringTable

\* strings.ToLower on the hosts of the model
ToLower(h) == CASE h = "www.GitHub.com" -> "www.github.com"
                [] h = "GitHub.com" -> "github.com"
                [] OTHER -> h

\* strings.HasPrefix(domain, "www.")
HasPrefixWww(h) == h \in {"www.github.com", "www.GitHub.com"}

\* domain[4:]
Drop4(h) == CASE h = "www.github.com" -> "github.com"
              [] h = "www.GitHub.com" -> "GitHub.com"
              [] OTHER -> h

WithScheme_AsIs(u) == u

\* lines 72-74 (and 25-27): "https://" is put in front of a string with no prefix
WithScheme(u) == IF u.pre = "" THEN [u EXCEPT !.pre = "https://"] ELSE u

\* u.Scheme of the parsed URL
Scheme(u) == IF u.pre = "https://" THEN "https" ELSE "http"

\* scheme://host of a parsed URL: u.Scheme + "://" + u.Host
SchemeHost(u) == Scheme(u) \o "://" \o u.host

normalizeURL_KeepsPath(u) ==
  LET p == WithScheme(u) IN Str(p)

normalizeURL(u) ==
  LET p == WithScheme(u)
  IN IF ~p.ok THEN Str(p) ELSE SchemeHost(p)

\* ------------------------------------------------------------------------
\* Known services
\* ------------------------------------------------------------------------
knownServices ==
  ("gmail.com" :> "https://ssl.gstatic.com/ui/v1/icons/mail/rfr/gmail.ico") @@
  ("mail.google.com" :> "https://ssl.gstatic.com/ui/v1/icons/mail/rfr/gmail.ico") @@
  ("google.com" :> "https://www.google.com/favicon.ico") @@
  ("youtube.com" :> "https://www.youtube.com/favicon.ico") @@
  ("github.com" :> "https://github.com/favicon.ico") @@
  ("stackoverflow.com" :> "https://cdn.sstatic.net/Sites/stackoverflow/Img/favicon.ico") @@
  ("twitter.com" :> "https://abs.twimg.com/favicons/twitter.ico") @@
  ("facebook.com" :> "https://static.xx.fbcdn.net/rsrc.php/yV/r/hzMapiNYYpW.ico") @@
  ("linkedin.com" :> "https://static.licdn.com/sc/h/1bt1uwq5akv756knzdj4l6cdc")

\* the bare domain the table is looked up with
BareDomain(u) ==
  LET domain == ToLower(u.host)
  IN IF HasPrefixWww(domain) THEN Drop4(domain) ELSE domain

getKnownServiceFavicon_Never(u) == ""

getKnownServiceFavicon(u) ==
  IF ~u.ok THEN ""
  ELSE IF BareDomain(u) \in DOMAIN knownServices
       THEN knownServices[BareDomain(u)]
       ELSE ""

\* ------------------------------------------------------------------------
\* Asset downloader
\* ------------------------------------------------------------------------
\* an HTTP answer: err is a transport error (timeout, DNS, refused)
Resp(err, status, body, ctype) ==
  [err |-> err, status |-> status, body |-> body, ctype |-> ctype]

DownloadResponses ==
  { Resp(TRUE, 0, "", ""),
    Resp(FALSE, 302, "", ""),
    Resp(FALSE, 404, "nf", "text/html"),
    Resp(FALSE, StatusOK, "", "image/png"),
    Resp(FALSE, StatusOK, "png1", "image/png"),
    Resp(FALSE, StatusOK, "ico2", "") }

\* base64.StdEncoding.EncodeToString on the bodies of the model
Base64(b) == CASE b = "png1" -> "cG5nMQ=="
               [] b = "ico2" -> "aWNvMg=="
               [] b = "nf" -> "bmY="
               [] OTHER -> ""

\* a result (string, error) of the engine
Ok(v) == [val |-> v, err |-> FALSE]
Fail == [val |-> "", err |-> TRUE]

downloadAndEncodeToBase64(resp) ==
  IF resp.err THEN Fail
  ELSE IF resp.status # StatusOK THEN Fail
  ELSE IF resp.body = "" THEN Fail
  ELSE LET contentType == IF resp.ctype = "" THEN "image/x-icon" ELSE resp.ctype
       IN Ok("data:" \o contentType \o ";base64," \o Base64(resp.body))

\* the condition of every "if err == nil && faviconBase64 != """
Downloaded(d) == ~d.err /\ d.val # ""

\* the payloads a download can give
DataURIs == { downloadAndEncodeToBase64(x).val : x \in DownloadResponses } \ {""}

\* ------------------------------------------------------------------------
\* Standard-location prober
\* ------------------------------------------------------------------------
standardPaths ==
  << "/favicon.ico",
     "/apple-touch-icon.png",
     "/apple-touch-icon-120x120.png",
     "/apple-touch-icon-152x152.png",
     "/apple-touch-icon-180x180.png",
     "/apple-touch-icon-precomposed.png",
     "/apple-icon.png",
     "/android-chrome-192x192.png",
     "/icon-192x192.png",
     "/icon.png",
     "/favicon.png",
     "/favicon-32x32.png",
     "/favicon-16x16.png" >>

\* what a HEAD probe may answer (no body is read)
HeadResponses ==
  { Resp(TRUE, 0, "", ""),
    Resp(FALSE, 301, "", ""),
    Resp(FALSE, 404, "", ""),
    Resp(FALSE, StatusOK, "", "") }

HeadFound_AnyAnswer(resp) == ~resp.err

\* line 265: the probe that ends the loop
HeadFound(resp) == ~resp.err /\ resp.status = StatusOK

\* line 258: baseURL.Scheme + "://" + baseURL.Host + path
ProbeURL(base, i) == SchemeHost(base) \o standardPaths[i]

DefaultIconURL_OtherPath(base) == SchemeHost(base) \o "/default.ico"

\* line 184
DefaultIconURL(base) == SchemeHost(base) \o "/favicon.ico"

\* ------------------------------------------------------------------------
\* HTML candidate extractor and regex fallback
\* ------------------------------------------------------------------------
\* An element of a fetched page: a <link rel href sizes> or a <meta property
\* content> (rel holds the property or name, href the content).  hf says that
\* the href (content) attribute is written before the rel (property) one.
El(tag, rel, href, sizes, hf) ==
  [tag |-> tag, rel |-> rel, href |-> href, sizes |-> sizes, hf |-> hf]

L_alt == El("link", "alternate icon", "/alt.png", "", FALSE)
L_icon == El("link", "icon", "/i.png", "", FALSE)
L_icon32 == El("link", "icon", "/i32.png", "16x16 32x32", TRUE)
L_apple == El("link", "apple-touch-icon", "/touch.png", "", FALSE)
L_short == El("link", " Shortcut Icon", "https://cdn.example.net/s.png", "", FALSE)
L_css == El("link", "stylesheet", "/site.css", "", FALSE)
L_nohref == El("link", "icon", "", "", FALSE)
L_icon16 == El("link", "icon", "/i16.png", "16x16", FALSE)
L_badhref == El("link", "icon", "/%zz.png", "", FALSE)
M_og == El("meta", "og:image", "/og.png", "", FALSE)

\* the sequences without repetition of at most n elements of S
RECURSIVE Arrangements(_, _)
Arrangements(S, n) ==
  IF n = 0 THEN { << >> }
  ELSE LET shorter == Arrangements(S, n - 1)
           longest == { q \in shorter : Len(q) = n - 1 }
           fresh == { qx \in longest \X S : \A i \in 1..Len(qx[1]) : qx[1][i] # qx[2] }
       IN shorter \cup { Append(qx[1], qx[2]) : qx \in fresh }

\* the <link> elements of the candidate study, and its pages
LinkElements ==
  { L_icon, L_icon16, L_icon32, L_short, L_apple, L_alt, L_css, L_nohref, L_badhref }

LinkDocs == Arrangements(LinkElements, MaxLinks)

\* the pages the remote sites serve
Docs ==
  { << L_css, L_nohref >>,
    << L_icon >>,
    << L_alt, L_icon, L_apple >>,
    << L_short, L_icon32 >>,
    << L_css, M_og >> }

\* strings.ToLower(strings.TrimSpace(attr.Val)) on the rel values of the model
RelNorm(rel) == CASE rel = " Shortcut Icon" -> "shortcut icon"
                  [] OTHER -> rel

relPriorities ==
  ("icon" :> 1) @@
  ("shortcut icon" :> 2) @@
  ("apple-touch-icon" :> 3) @@
  ("apple-touch-icon-precomposed" :> 4) @@
  ("fluid-icon" :> 5) @@
  ("mask-icon" :> 6) @@
  ("alternate icon" :> 7)

\* line 310 on the sizes values of the model
QualifyingSize_Never(sizes) == FALSE

QualifyingSize(sizes) == sizes \in {"32x32", "16x16 32x32", "64x64", "128x128"}

\* url.Parse(href) gives no error: "%zz" is not a valid escape
HrefParses(href) == href # "/%zz.png"

\* iconURL.IsAbs() on the hrefs of the model
IsAbs(href) == href \in {"https://cdn.example.net/s.png"}

\* baseURL.ResolveReference(iconURL).String(): the relative hrefs of the model
\* are absolute paths
ResolveReference(base, href) == IF IsAbs(href) THEN href ELSE SchemeHost(base) \o href

IconCandidate(url, priority) == [URL |-> url, Priority |-> priority]

\* lines 290-320: the candidate of one element, << >> when it gives none
CandidateOf(e, base) ==
  LET rel == RelNorm(e.rel)
  IN IF e.tag = "link" /\ rel \in DOMAIN relPriorities /\ e.href # "" /\ HrefParses(e.href)
     THEN << IconCandidate(ResolveReference(base, e.href),
                           IF e.sizes # "" /\ QualifyingSize(e.sizes)
                           THEN relPriorities[rel] - 1
                           ELSE relPriorities[rel]) >>
     ELSE << >>

\* line 327: the traversal appends the candidates in document order
RECURSIVE Traverse(_, _)
Traverse(doc, base) ==
  IF doc = << >> THEN << >>
  ELSE CandidateOf(Head(doc), base) \o Traverse(Tail(doc), base)

Swap(cs, i, j) == [cs EXCEPT ![i] = cs[j], ![j] = cs[i]]

\* lines 331-335: the inner loop, j from i+1 to the end
RECURSIVE SortInner(_, _, _)
SortInner(cs, i, j) ==
  IF j > Len(cs) THEN cs
  ELSE SortInner(IF cs[i].Priority > cs[j].Priority THEN Swap(cs, i, j) ELSE cs, i, j + 1)

\* lines 330-336: the outer loop, i over all positions but the last
RECURSIVE SortOuter(_, _)
SortOuter(cs, i) ==
  IF i + 1 > Len(cs) THEN cs
  ELSE SortOuter(SortInner(cs, i, i + 1), i + 1)

findIconCandidates_Unsorted(doc, base) == Traverse(doc, base)

findIconCandidates(doc, base) == SortOuter(Traverse(doc, base), 1)

\* The eight patterns of findIconWithRegex, in order, as tests on an element.
RegexMatches(k, e) ==
  LET rel == RelNorm(e.rel)
  IN CASE k = 1 -> e.tag = "link" /\ rel \in {"icon", "shortcut icon"} /\ ~e.hf
       [] k = 2 -> e.tag = "link" /\ rel \in {"icon", "shortcut icon"} /\ e.hf
       [] k = 3 -> e.tag = "link" /\ rel \in {"apple-touch-icon", "apple-touch-icon-precomposed"} /\ ~e.hf
       [] k = 4 -> e.tag = "link" /\ rel \in {"apple-touch-icon", "apple-touch-icon-precomposed"} /\ e.hf
       [] k = 5 -> e.tag = "meta" /\ rel = "og:image" /\ ~e.hf
       [] k = 6 -> e.tag = "meta" /\ rel = "og:image" /\ e.hf
       [] k = 7 -> e.tag = "meta" /\ rel = "twitter:image" /\ ~e.hf
       [] OTHER -> e.tag = "meta" /\ rel = "twitter:image" /\ e.hf

\* re.FindStringSubmatch: the leftmost element the pattern matches ([^"']+
\* needs a non-empty href)
FirstMatch(k, doc) ==
  LET hits == { i \in 1..Len(doc) : RegexMatches(k, doc[i]) /\ doc[i].href # "" }
  IN IF hits = {} THEN 0 ELSE CHOOSE i \in hits : \A j \in hits : i <= j

RECURSIVE RegexFrom(_, _, _)
RegexFrom(k, doc, base) ==
  IF k > 8 THEN ""
  ELSE IF FirstMatch(k, doc) # 0 /\ HrefParses(doc[FirstMatch(k, doc)].href)
       THEN ResolveReference(base, doc[FirstMatch(k, doc)].href)
       ELSE RegexFrom(k + 1, doc, base)

findIconWithRegex(doc, base) == RegexFrom(1, doc, base)

\* line 257-270: the probes in list order, up to the first that answers 200;
\* answers[i] is what the HEAD on path i would answer
RECURSIVE ProbeFrom(_, _, _)
ProbeFrom(i, base, answers) ==
  IF i > Len(standardPaths) THEN [url |-> "", probes |-> i - 1]
  ELSE IF HeadFound(answers[i]) THEN [url |-> ProbeURL(base, i), probes |-> i]
  ELSE ProbeFrom(i + 1, base, answers)

checkStandardFaviconLocations(base, answers) == ProbeFrom(1, base, answers)

H_err == Resp(TRUE, 0, "", "")
H_301 == Resp(FALSE, 301, "", "")
H_404 == Resp(FALSE, 404, "", "")
H_200 == Resp(FALSE, StatusOK, "", "")

\* what the thirteen locations of a site may answer
HeadAnswers ==
  { [i \in 1..13 |-> H_404],
    [i \in 1..13 |-> H_200],
    [i \in 1..13 |-> IF i = 1 THEN H_err ELSE IF i = 2 THEN H_200 ELSE H_404],
    [i \in 1..13 |-> IF i = 13 THEN H_200 ELSE IF i = 5 THEN H_301 ELSE H_404] }

\* ------------------------------------------------------------------------
\* State
\* ------------------------------------------------------------------------
VARIABLES
  hasCache,   \* cacheRepo != nil
  cache,      \* Redis: favicon key -> stored data URI, "" when there is no entry
  live,       \* history: origin -> the entry a resolution stored for it, and the URL resolved
  age,        \* Redis: favicon key -> days since the key was last SET, at most MaxAge
  r,          \* the FetchFaviconBase64 call in progress
  store,      \* the bookmarks table: id -> row, NoBookmark when there is none
  nextID,     \* the id the next created row gets
  imp,        \* the ImportBookmarksV2 request in progress
  last,       \* history: how the last service operation (or import item) ended
  pool,       \* a fetchFaviconsParallel call seen as counts of goroutines per position
  batch,      \* a fetchFaviconsParallel call seen record by record
  app,        \* the last call of a helper on its own: its input and what it gave
  rl,         \* the rate limiter: the Redis counter of one key and the requests on it
  auth        \* the users' token versions and the refresh tokens issued

\* the keys the cache is asked for
CacheKeys == { normalizeURL(u) : u \in InputURLs }

\* scheme://host of the URL a user submitted
OriginOf(u) == IF WithScheme(u).ok THEN SchemeHost(WithScheme(u)) ELSE Str(WithScheme(u))

Origins == { OriginOf(u) : u \in InputURLs }

\* history: how the page fetch's last response was taken: its Location when
\* it is a redirect, and what the client did with it
Response(loc, act) == [loc |-> loc, act |-> act]

NoResponse == Response(U_empty, "none")

NoCall ==
  [ pc |-> "idle", url |-> U_empty, key |-> "", get |-> "none", route |-> "none",
    calls |-> << >>, puts |-> << >>, val |-> "", err |-> FALSE,
    cur |-> U_empty, nreq |-> 0, base |-> U_empty, body |-> << >>,
    std |-> "", cands |-> << >>, ci |-> 0,
    resp |-> NoResponse, ctx |-> "live" ]

\* one network request of a call: the step it belongs to, the URL, and the
\* payload when it is a download that succeeded.  A request that repeats the
\* one before it is logged once.
Call(src, url, val) == [src |-> src, url |-> url, val |-> val]

Log(rr, src, url, val) ==
  IF rr.calls # << >> /\ rr.calls[Len(rr.calls)] = Call(src, url, val)
  THEN rr.calls
  ELSE Append(rr.calls, Call(src, url, val))

\* return res: the locals go out of scope
Returned(rr, res) ==
  [ rr EXCEPT !.pc = "done", !.val = res.val, !.err = res.err,
              !.cur = U_empty, !.nreq = 0, !.base = U_empty, !.body = << >>,
              !.std = "", !.cands = << >>, !.ci = 0 ]

\* ------------------------------------------------------------------------
\* Cache gateway (cache-repository.go)
\* ------------------------------------------------------------------------
\* the TTL the other cached values get, in days
EmailVerificationCodeTTL == 1

\* FaviconCacheTTL = time.Hour * 24 * 7, in days
FaviconCacheTTL == 7

\* ages are followed up to MaxAge days; an older entry is as old as MaxAge
MaxAge == 8

\* GetFaviconBase64: redis.Nil is ("", nil), any other Redis error is ("", err)
GetFaviconBase64(c, key, up) == IF ~up THEN Fail ELSE Ok(c[key])

\* StoreFaviconBase64: SET key value EX ttl
StoreFaviconBase64(c, key, v, up) == IF up THEN [c EXCEPT ![key] = v] ELSE c

CacheHit_NoEmptyCheck(g) == ~g.err

\* line 67: err == nil && cachedFaviconBase64 != ""
CacheHit(g) == ~g.err /\ g.val # ""

\* ------------------------------------------------------------------------
\* FetchFaviconBase64, step by step
\* ------------------------------------------------------------------------
\* ctx has not been cancelled: a request made with it is sent and answered
CtxLive(rr) == rr.ctx = "live"

\* whether Redis answers a command given ctx: never once ctx is cancelled
RedisAnswers(rr) == IF CtxLive(rr) THEN BOOLEAN ELSE {FALSE}

\* the caller cancels the ctx of a call in progress
Cancel ==
  /\ r.pc \notin {"idle", "done"}
  /\ CtxLive(r)
  /\ r' = [r EXCEPT !.ctx = "cancelled"]
  /\ UNCHANGED <<hasCache, cache, live, age>>
  /\ UNCHANGED <<store, nextID, imp, last, pool, batch, app, rl, auth>>

\* a caller calls FetchFaviconBase64(ctx, cacheRepo, u)
Invoke(u) ==
  /\ r.pc = "idle"
  /\ r' = [NoCall EXCEPT !.pc = "cache", !.url = u, !.key = normalizeURL(u)]
  /\ UNCHANGED <<hasCache, cache, live, age>>
  /\ UNCHANGED <<store, nextID, imp, last, pool, batch, app, rl, auth>>

\* lines 66-70
CacheCheck ==
  /\ r.pc = "cache"
  /\ IF ~hasCache
     THEN r' = [r EXCEPT !.pc = "known", !.get = "nocache"]
     ELSE \E up \in RedisAnswers(r) :
            LET g == GetFaviconBase64(cache, r.key, up)
            IN IF CacheHit(g)
               THEN r' = Returned([r EXCEPT !.get = "hit"], Ok(g.val))
               ELSE r' = [r EXCEPT !.pc = "known",
                                   !.get = IF g.err THEN "err" ELSE "miss"]
  /\ UNCHANGED <<hasCache, cache, live, age>>
  /\ UNCHANGED <<store, nextID, imp, last, pool, batch, app, rl, auth>>

AfterDownload_NoReturn(rr, src, url, d, next) ==
  [rr EXCEPT !.pc = next, !.calls = Log(rr, src, url, d.val)]

\* "if err == nil && faviconBase64 != "" { store; return }", else go on at pc
AfterDownload(rr, src, url, d, next) ==
  IF Downloaded(d)
  THEN [rr EXCEPT !.pc = "store", !.val = d.val, !.calls = Log(rr, src, url, d.val)]
  ELSE [rr EXCEPT !.pc = next, !.calls = Log(rr, src, url, "")]

\* lines 76-85
KnownService ==
  /\ r.pc = "known"
  /\ LET faviconURL == getKnownServiceFavicon(WithScheme(r.url))
     IN IF faviconURL = ""
        THEN r' = [r EXCEPT !.pc = "page", !.cur = WithScheme(r.url)]
        ELSE \E resp \in DownloadResponses :
               r' = AfterDownload([r EXCEPT !.cur = WithScheme(r.url)], "known",
                                  faviconURL, downloadAndEncodeToBase64(resp), "page")
  /\ UNCHANGED <<hasCache, cache, live, age>>
  /\ UNCHANGED <<store, nextID, imp, last, pool, batch, app, rl, auth>>

Entry(v, u) == [val |-> v, by |-> u]

AfterStore_FailsOnError(val, stored) == IF stored THEN Ok(val) ELSE Fail

\* "_ = cacheRepo.StoreFaviconBase64(...)" and "return faviconBase64, nil":
\* the error of the write is dropped
AfterStore(val, stored) == Ok(val)

StoreKey_FinalURL(rr) == normalizeURL(rr.base)

\* the key of every StoreFaviconBase64: normalizedURL, computed at line 64
\* from the URL the caller passed
StoreKey(rr) == rr.key

\* the cache write before every "return faviconBase64, nil"
Store ==
  /\ r.pc = "store"
  /\ IF ~hasCache
     THEN /\ r' = Returned(r, Ok(r.val))
          /\ UNCHANGED <<cache, live, age>>
     ELSE \E up \in RedisAnswers(r) :
            /\ cache' = StoreFaviconBase64(cache, StoreKey(r), r.val, up)
            /\ age' = IF up THEN [age EXCEPT ![StoreKey(r)] = 0] ELSE age
            /\ live' = IF up THEN [live EXCEPT ![OriginOf(r.url)] = Entry(r.val, r.url)] ELSE live
            /\ r' = Returned([r EXCEPT !.puts = Append(r.puts, [key |-> StoreKey(r), val |-> r.val, ok |-> up])],
                             AfterStore(r.val, up))
  /\ UNCHANGED hasCache
  /\ UNCHANGED <<store, nextID, imp, last, pool, batch, app, rl, auth>>

tryFaviconFromBaseDomain_ReadsResponse(rr) ==
  [rr EXCEPT !.pc = "std", !.route = "page", !.base = rr.cur]

\* lines 115-118 and 124-127: the call of tryFaviconFromBaseDomain with the
\* URL the caller passed (scheme added), not the URL of the last request
tryFaviconFromBaseDomain(rr) ==
  [rr EXCEPT !.pc = "bdKnown", !.route = "base", !.base = WithScheme(rr.url)]

CheckRedirectStops_Never(target) == FALSE

\* lines 49-52: CheckRedirect stops at a target that looks like a login
CheckRedirectStops(target) ==
  \/ Contains(target, "login")
  \/ Contains(target, "signin")
  \/ Contains(target, "auth")
  \/ Contains(target, "accounts.google.com")

\* line 113: the Location of the final 3xx response looks like a login
LocationIsAuth(location) ==
  \/ Contains(location, "login")
  \/ Contains(location, "signin")
  \/ Contains(location, "auth")

\* lines 90-93: http.NewRequestWithContext refuses a URL that does not parse
PageRequestFails ==
  /\ r.pc = "page"
  /\ ~r.cur.ok
  /\ r' = Returned(r, Fail)
  /\ UNCHANGED <<hasCache, cache, live, age>>
  /\ UNCHANGED <<store, nextID, imp, last, pool, batch, app, rl, auth>>

\* lines 104-107: client.Do fails (timeout, DNS, connection refused)
PageNetworkError ==
  /\ r.pc = "page"
  /\ r.cur.ok
  /\ r' = Returned([r EXCEPT !.calls = Log(r, "page", Str(r.cur), ""),
                             !.resp = Response(U_empty, "error")], Fail)
  /\ UNCHANGED <<hasCache, cache, live, age>>
  /\ UNCHANGED <<store, nextID, imp, last, pool, batch, app, rl, auth>>

\* The GET is answered 3xx with a Location.  CheckRedirect (lines 41-57) gives
\* an error after ten requests, stops at a login target, follows any other.
\* A redirect that is not followed is the final response: lines 111-127 hand
\* it to tryFaviconFromBaseDomain with the URL the caller passed.
PageRedirect ==
  /\ r.pc = "page"
  /\ r.cur.ok
  /\ CtxLive(r)
  /\ \E target \in RedirectTargets :
       LET via == r.nreq + 1
           logged == [r EXCEPT !.calls = Log(r, "page", Str(r.cur), "")]
           stopped == [logged EXCEPT !.resp = Response(target, "stopped")]
       IN IF via >= MaxRedirects
          THEN r' = Returned([logged EXCEPT !.resp = Response(target, "refused")], Fail)
          ELSE IF CheckRedirectStops(target)
          THEN IF LocationIsAuth(target)
               THEN r' = tryFaviconFromBaseDomain(stopped)
               ELSE r' = tryFaviconFromBaseDomain(stopped)
          ELSE r' = [logged EXCEPT !.cur = target, !.nreq = via,
                                   !.resp = Response(target, "followed")]
  /\ UNCHANGED <<hasCache, cache, live, age>>
  /\ UNCHANGED <<store, nextID, imp, last, pool, batch, app, rl, auth>>

\* lines 122-127: the final response is not 200 (404, 500, a 3xx with no Location)
PageNot200 ==
  /\ r.pc = "page"
  /\ r.cur.ok
  /\ CtxLive(r)
  /\ r' = tryFaviconFromBaseDomain([r EXCEPT !.calls = Log(r, "page", Str(r.cur), ""),
                                             !.resp = Response(U_empty, "non200")])
  /\ UNCHANGED <<hasCache, cache, live, age>>
  /\ UNCHANGED <<store, nextID, imp, last, pool, batch, app, rl, auth>>

\* lines 131-140: 200; the final URL is the base, the body, one of the
\* documents D, is read
PageOKWith(D) ==
  /\ r.pc = "page"
  /\ r.cur.ok
  /\ CtxLive(r)
  /\ \E doc \in D :
       r' = [r EXCEPT !.pc = "std", !.route = "page", !.base = r.cur, !.body = doc, !.nreq = 0,
                      !.calls = Log(r, "page", Str(r.cur), ""),
                      !.resp = Response(U_empty, "ok")]
  /\ UNCHANGED <<hasCache, cache, live, age>>
  /\ UNCHANGED <<store, nextID, imp, last, pool, batch, app, rl, auth>>

PageOK == PageOKWith(Docs)

\* line 143: the HEAD probes of the final URL's site
Standard ==
  /\ r.pc = "std"
  /\ \E answers \in HeadAnswers :
       LET standardIconURL == checkStandardFaviconLocations(r.base, answers).url
           logged == [r EXCEPT !.calls = Log(r, "probe", standardIconURL, "")]
       IN IF standardIconURL # ""
          THEN r' = [logged EXCEPT !.pc = "stdDl", !.std = standardIconURL]
          ELSE r' = [logged EXCEPT !.pc = "html"]
  /\ UNCHANGED <<hasCache, cache, live, age>>
  /\ UNCHANGED <<store, nextID, imp, last, pool, batch, app, rl, auth>>

\* lines 144-152
StandardDownload ==
  /\ r.pc = "stdDl"
  /\ \E resp \in DownloadResponses :
       r' = AfterDownload(r, "std", r.std, downloadAndEncodeToBase64(resp), "html")
  /\ UNCHANGED <<hasCache, cache, live, age>>
  /\ UNCHANGED <<store, nextID, imp, last, pool, batch, app, rl, auth>>

\* lines 155-160: html.Parse gives the document, whose candidates are
\* extracted and sorted, or an error (the parser may refuse a page, as it
\* does beyond its limit of open elements), with which the call returns
ParseHTML ==
  /\ r.pc = "html"
  /\ \E parsed \in BOOLEAN :
       IF parsed
       THEN r' = [r EXCEPT !.pc = "cand", !.cands = findIconCandidates(r.body, r.base), !.ci = 1]
       ELSE r' = Returned(r, Fail)
  /\ UNCHANGED <<hasCache, cache, live, age>>
  /\ UNCHANGED <<store, nextID, imp, last, pool, batch, app, rl, auth>>

\* lines 161-169: one turn of the loop over the candidates
Candidate ==
  /\ r.pc = "cand"
  /\ IF r.ci > Len(r.cands)
     THEN r' = [r EXCEPT !.pc = "regex"]
     ELSE \E resp \in DownloadResponses :
            r' = AfterDownload([r EXCEPT !.ci = r.ci + 1], "html", r.cands[r.ci].URL,
                               downloadAndEncodeToBase64(resp), "cand")
  /\ UNCHANGED <<hasCache, cache, live, age>>
  /\ UNCHANGED <<store, nextID, imp, last, pool, batch, app, rl, auth>>

\* lines 172-181
Regex ==
  /\ r.pc = "regex"
  /\ LET iconURL == findIconWithRegex(r.body, r.base)
     IN IF iconURL = ""
        THEN r' = [r EXCEPT !.pc = "default"]
        ELSE \E resp \in DownloadResponses :
               r' = AfterDownload(r, "regex", iconURL, downloadAndEncodeToBase64(resp), "default")
  /\ UNCHANGED <<hasCache, cache, live, age>>
  /\ UNCHANGED <<store, nextID, imp, last, pool, batch, app, rl, auth>>

CacheAfterFailure_Negative(c, key) == [c EXCEPT ![key] = "none"]

\* lines 193 and 436: a failure returns without a cache write
CacheAfterFailure(c, key) == c

\* lines 184-193
DefaultIcon ==
  /\ r.pc = "default"
  /\ \E resp \in DownloadResponses :
       LET d == downloadAndEncodeToBase64(resp)
           next == AfterDownload(r, "default", DefaultIconURL(r.base), d, "fail")
       IN IF Downloaded(d)
          THEN r' = next /\ UNCHANGED cache
          ELSE /\ r' = Returned(next, Fail)
               /\ cache' = IF hasCache THEN CacheAfterFailure(cache, r.key) ELSE cache
  /\ UNCHANGED <<hasCache, live, age>>
  /\ UNCHANGED <<store, nextID, imp, last, pool, batch, app, rl, auth>>

\* lines 414-422: tryFaviconFromBaseDomain looks the known services up again
BaseDomainKnown ==
  /\ r.pc = "bdKnown"
  /\ LET faviconURL == getKnownServiceFavicon(r.base)
     IN IF faviconURL = ""
        THEN r' = [r EXCEPT !.pc = "bdStd"]
        ELSE \E resp \in DownloadResponses :
               r' = AfterDownload(r, "known", faviconURL, downloadAndEncodeToBase64(resp), "bdStd")
  /\ UNCHANGED <<hasCache, cache, live, age>>
  /\ UNCHANGED <<store, nextID, imp, last, pool, batch, app, rl, auth>>

\* lines 425-426 and 436
BaseDomainStandard ==
  /\ r.pc = "bdStd"
  /\ \E answers \in HeadAnswers :
       LET standardIconURL == checkStandardFaviconLocations(r.base, answers).url
           logged == [r EXCEPT !.calls = Log(r, "probe", standardIconURL, "")]
       IN IF standardIconURL # ""
          THEN r' = [logged EXCEPT !.pc = "bdDl", !.std = standardIconURL] /\ UNCHANGED cache
          ELSE /\ r' = Returned(logged, Fail)
               /\ cache' = IF hasCache THEN CacheAfterFailure(cache, r.key) ELSE cache
  /\ UNCHANGED <<hasCache, live, age>>
  /\ UNCHANGED <<store, nextID, imp, last, pool, batch, app, rl, auth>>

\* lines 427-436
BaseDomainDownload ==
  /\ r.pc = "bdDl"
  /\ \E resp \in DownloadResponses :
       LET d == downloadAndEncodeToBase64(resp)
           next == AfterDownload(r, "std", r.std, d, "fail")
       IN IF Downloaded(d)
          THEN r' = next /\ UNCHANGED cache
          ELSE /\ r' = Returned(next, Fail)
               /\ cache' = IF hasCache THEN CacheAfterFailure(cache, r.key) ELSE cache
  /\ UNCHANGED <<hasCache, live, age>>
  /\ UNCHANGED <<store, nextID, imp, last, pool, batch, app, rl, auth>>

\* the caller takes the result
Return ==
  /\ r.pc = "done"
  /\ r' = NoCall
  /\ UNCHANGED <<hasCache, cache, live, age>>
  /\ UNCHANGED <<store, nextID, imp, last, pool, batch, app, rl, auth>>

\* a day passes: Redis drops the entries whose TTL (the one given to SET) is over
Tick ==
  /\ \E k \in CacheKeys : age[k] < MaxAge
  /\ age' = [k \in CacheKeys |-> IF age[k] < MaxAge THEN age[k] + 1 ELSE MaxAge]
  /\ cache' = [k \in CacheKeys |-> IF age'[k] >= FaviconCacheTTL THEN "" ELSE cache[k]]
  /\ live' = [o \in Origins |->
               IF o \in CacheKeys /\ age'[o] >= FaviconCacheTTL THEN Entry("", U_empty) ELSE live[o]]
  /\ UNCHANGED <<hasCache, r>>
  /\ UNCHANGED <<store, nextID, imp, last, pool, batch, app, rl, auth>>

\* the TTL of an entry runs out (FaviconCacheTTL); how much later is not followed
Expire ==
  /\ \E k \in CacheKeys :
       /\ cache[k] # ""
       /\ cache' = [cache EXCEPT ![k] = ""]
       /\ live' = [o \in Origins |-> IF o = k THEN Entry("", U_empty) ELSE live[o]]
       /\ age' = [age EXCEPT ![k] = MaxAge]
  /\ UNCHANGED <<hasCache, r>>
  /\ UNCHANGED <<store, nextID, imp, last, pool, batch, app, rl, auth>>

vars == <<hasCache, cache, live, age, r, store, nextID, imp, last, pool, batch, app, rl, auth>>

\* app.go: the service is built with a Redis client that may or may not be
\* there for the parsers (cacheRepo != nil is tested on every use)
InitEngine ==
  /\ hasCache \in BOOLEAN
  /\ cache = [k \in CacheKeys |-> ""]
  /\ live = [o \in Origins |-> Entry("", U_empty)]
  /\ age = [k \in CacheKeys |-> MaxAge]
  /\ r = NoCall

Resolve ==
  \/ CacheCheck
  \/ KnownService
  \/ PageRequestFails
  \/ PageNetworkError
  \/ PageRedirect
  \/ PageNot200
  \/ PageOK
  \/ Standard
  \/ StandardDownload
  \/ ParseHTML
  \/ Candidate
  \/ Regex
  \/ DefaultIcon
  \/ BaseDomainKnown
  \/ BaseDomainStandard
  \/ BaseDomainDownload
  \/ Store


\* ------------------------------------------------------------------------
\* Properties of a single resolution
\* ------------------------------------------------------------------------
\* the place of a source in the cascade; the page fetch is no source
Rank(src) == CASE src = "known" -> 1
               [] src = "probe" -> 2
               [] src = "std" -> 2
               [] src = "html" -> 3
               [] src = "regex" -> 4
               [] OTHER -> 5

IsSource(c) == c.src # "page"

Sources(calls) == SelectSeq(calls, IsSource)

LastCall(rr) == rr.calls[Len(rr.calls)]

\* the call found its icon on the network (no cache hit)
FoundLive(rr) == rr.pc = "done" /\ ~rr.err /\ rr.get # "hit"

\* C1: On a cache miss the sources are tried in the order known service,
\* standard locations, HTML candidates, regex fallback, default icon; the
\* first download that succeeds ends the call: its payload is what is written
\* to the cache under normalizeURL of the input and what is returned, and no
\* request follows it.
C1_CascadeOrder ==
  /\ \A i, j \in 1..Len(Sources(r.calls)) :
       i < j => Rank(Sources(r.calls)[i].src) <= Rank(Sources(r.calls)[j].src)
  /\ \A i \in 1..Len(r.calls) :
       r.calls[i].val # "" =>
         /\ i = Len(r.calls)
         /\ r.pc \in {"store", "done"}
         /\ r.val = r.calls[i].val
         /\ r.pc = "done" => ~r.err
  /\ FoundLive(r) =>
       /\ r.calls # << >>
       /\ LastCall(r).val = r.val
       /\ r.val # ""
       /\ hasCache => /\ Len(r.puts) = 1
                      /\ r.puts[1].key = normalizeURL(r.url)
                      /\ r.puts[1].val = r.val

\* a call that the known service, the standard location and the HTML
\* candidate all failed, and that the regex fallback served
C1_Witness ==
  /\ FoundLive(r)
  /\ hasCache
  /\ LastCall(r).src = "regex"
  /\ \E i, j, k \in 1..Len(r.calls) :
       /\ i < j /\ j < k
       /\ r.calls[i].src = "known"
       /\ r.calls[j].src = "std"
       /\ r.calls[k].src = "html"

\* C2: No negative caching.  A call that returns an error has issued no cache
\* write and none of its steps changes the cache; an entry is written or
\* replaced only by the step that completes a successful call, with the
\* payload that call returns, under that call's key.
C2_NoNegativeCaching ==
  [][ /\ (r'.pc = "done" /\ r'.err) => (r'.puts = << >> /\ (r.pc # "done" => cache' = cache))
      /\ \A k \in CacheKeys :
           (cache'[k] # cache[k] /\ cache'[k] # "") =>
             /\ r.pc = "store"
             /\ r'.pc = "done"
             /\ ~r'.err
             /\ k = r'.key
             /\ cache'[k] = r'.val ]_vars

\* the whole cascade failed while the cache holds the entry of another origin
C2_Witness ==
  /\ r.pc = "done"
  /\ r.err
  /\ r.calls # << >>
  /\ LastCall(r).src = "default"
  /\ r.get = "miss"
  /\ \E k \in CacheKeys : cache[k] # ""

\* C3: While an origin has a live entry (stored by a successful resolution,
\* not expired) and the cache answers, the resolution of any URL of that
\* origin ends at the cache check: it returns the stored payload, with no
\* network request and no cache write.
C3_SameOriginHit ==
  [][ ( /\ r.pc = "cache"
        /\ r'.pc # "cache"
        /\ hasCache
        /\ live[OriginOf(r.url)].val # ""
        /\ r'.get # "err" )
      => ( /\ r'.pc = "done"
           /\ ~r'.err
           /\ r'.val = live[OriginOf(r.url)].val
           /\ r'.calls = << >>
           /\ r'.puts = << >>
           /\ cache' = cache ) ]_vars

\* example.com is served from the entry that https://example.com/page stored
C3_Witness ==
  /\ r.pc = "done"
  /\ r.get = "hit"
  /\ r.url = U_ex2
  /\ live[OriginOf(r.url)].by = U_ex1
  /\ r.val = live[OriginOf(r.url)].val
  /\ r.calls = << >>

\* C4: Every return of FetchFaviconBase64 is a non-empty payload with no
\* error, or an empty payload with an error.
C4_NoEmptySuccess ==
  r.pc = "done" => \/ (r.val # "" /\ ~r.err)
                   \/ (r.val = "" /\ r.err)

\* base-domain discovery found the icon
C4_Witness ==
  /\ r.pc = "done"
  /\ r.route = "base"
  /\ ~r.err
  /\ r.val # ""

\* the claim's known-service test: the host, lower-cased, without a leading
\* "www.", is a key of the table
InKnownTable(u) == WithScheme(u).ok /\ BareDomain(u) \in DOMAIN knownServices

\* C10: After a cache miss on a URL of a known service the first request is
\* the download of the table's icon URL, and when it succeeds the call ends
\* there: the payload is returned and written to the cache, with no page fetch
\* and no standard-location probe.  For any other URL no known-service
\* download is made and the call goes on to the page fetch, which is the
\* first request it issues.
C10_KnownServiceFirst ==
  (r.pc \notin {"idle", "cache"} /\ r.get # "hit") =>
    IF InKnownTable(r.url)
    THEN \/ r.pc = "known" /\ r.calls = << >>
         \/ /\ r.calls # << >>
            /\ r.calls[1].src = "known"
            /\ r.calls[1].url = knownServices[BareDomain(r.url)]
            /\ r.calls[1].val # "" =>
                 /\ Len(r.calls) = 1
                 /\ r.pc \in {"store", "done"}
                 /\ r.val = r.calls[1].val
                 /\ r.pc = "done" => (~r.err /\ (hasCache => Len(r.puts) = 1))
    ELSE /\ \A i \in 1..Len(r.calls) : r.calls[i].src # "known"
         /\ r.calls # << >> => r.calls[1].src = "page"
         /\ r.calls = << >> => \/ r.pc \in {"known", "page"}
                               \/ (r.pc = "done" /\ r.err /\ ~WithScheme(r.url).ok)

\* https://www.GitHub.com is served by the one download of github's icon
C10_Witness ==
  /\ FoundLive(r)
  /\ r.url = U_ghw
  /\ r.calls = << Call("known", "https://github.com/favicon.ico", r.val) >>
  /\ Len(r.puts) = 1

\* the redirect targets the spec calls an authentication page
AuthTarget(t) ==
  \/ Contains(t, "login")
  \/ Contains(t, "signin")
  \/ Contains(t, "auth")
  \/ Contains(t, "accounts.google.com")

\* this step is the page fetch receiving a redirect
RedirectStep ==
  /\ r.pc = "page"
  /\ r' # r
  /\ r'.resp.act \in {"followed", "stopped", "refused"}

\* the client does not follow the redirect: the 3xx response is the final one,
\* the discovery goes on from the base domain and no GET goes to the target
Stopped ==
  /\ r'.resp.act = "stopped"
  /\ r'.pc = "bdKnown"
  /\ r'.route = "base"
  /\ r'.calls = Log(r, "page", Str(r.cur), "")

\* the client follows the redirect: the next GET goes to the target
Followed ==
  /\ r'.resp.act = "followed"
  /\ r'.pc = "page"
  /\ r'.cur = r'.resp.loc
  /\ r'.nreq = r.nreq + 1

\* the client gives up: the fetch fails and no GET goes to the target
Refused ==
  /\ r'.resp.act = "refused"
  /\ r'.pc = "done"
  /\ r'.err
  /\ r'.calls = Log(r, "page", Str(r.cur), "")

ShortCircuit(rr) == rr.resp.act \in {"stopped", "non200"}

\* C12: When the page fetch ends in an unfollowed auth redirect or in a final
\* status other than 200, the call goes on with the base-domain discovery
\* only: the HTML is never parsed, no candidate and no regex match is
\* downloaded, and the only requests after the page fetch are the
\* known-service download and the standard-location probes and download.
C12_BaseDomainOnly ==
  /\ (r.pc # "idle" /\ ShortCircuit(r)) <=> r.route = "base"
  /\ r.route = "base" =>
       /\ r.pc \in {"bdKnown", "bdStd", "bdDl", "store", "done"}
       /\ r.body = << >>
       /\ r.cands = << >>
       /\ \A i \in 1..Len(r.calls) : r.calls[i].src \in {"known", "page", "probe", "std"}
       /\ \A i, j \in 1..Len(r.calls) :
            (i < j /\ r.calls[i].src \in {"probe", "std"}) => r.calls[j].src \in {"probe", "std"}

\* after a 404 page the icon of a known service's site came from the standard locations
C12_Witness ==
  /\ r.pc = "done"
  /\ ~r.err
  /\ r.resp.act = "non200"
  /\ Len(r.calls) = 5
  /\ r.calls[1].src = "known"
  /\ r.calls[2].src = "page"
  /\ r.calls[3].src = "known"
  /\ r.calls[4].src = "probe"
  /\ r.calls[5].src = "std"

\* C13 (as stated): When the page fetch short-circuits and the standard
\* locations give no icon, the default icon /favicon.ico is downloaded before
\* the call returns NotFound.
C13_DefaultIconAfterShortCircuit ==
  (r.pc = "done" /\ r.err /\ ShortCircuit(r)) =>
    /\ r.calls # << >>
    /\ LastCall(r).src = "default"
    /\ LastCall(r).url = DefaultIconURL(WithScheme(r.url))

\* the cache failed the call somewhere: the get gave an error, a put gave an
\* error, or there is no cache
CacheTrouble(rr) ==
  \/ rr.get \in {"err", "nocache"}
  \/ \E k \in 1..Len(rr.puts) : ~rr.puts[k].ok

\* what the requests of the call alone give: the payload of the download that
\* succeeded, which is the last request, or a failure
LiveResult(rr) ==
  IF rr.calls # << >> /\ LastCall(rr).val # ""
  THEN Ok(LastCall(rr).val)
  ELSE Fail

\* C17: The cache is a soft dependency: when the cache get gives an error, a
\* cache put gives an error, or no cache is configured, FetchFaviconBase64
\* returns what its network requests alone give, the payload downloaded or
\* the failure, and a put is never attempted for a failure.
C17_CacheSoftDependency ==
  (r.pc = "done" /\ CacheTrouble(r)) =>
    /\ [val |-> r.val, err |-> r.err] = LiveResult(r)
    /\ r.err => r.puts = << >>
    /\ ~hasCache => r.puts = << >>

\* the Redis GET failed, the icon was downloaded, the Redis SET failed, and
\* the caller still got the payload
C17_Witness ==
  /\ r.pc = "done"
  /\ r.get = "err"
  /\ Len(r.puts) = 1
  /\ ~r.puts[1].ok
  /\ ~r.err
  /\ r.val = LastCall(r).val
  /\ r.val # ""

\* the cache check of a call has been made and Redis answered it
CacheAnswered == r.pc = "cache" /\ r'.pc # "cache" /\ hasCache /\ r'.get # "err"

\* the call wrote its payload to Redis
CacheWritten == r.pc = "store" /\ r'.pc = "done" /\ Len(r'.puts) = 1 /\ r'.puts[1].ok

\* C18: A payload written by StoreFaviconBase64 is what GetFaviconBase64
\* gives for the same key, unchanged, as long as fewer than 7 days have
\* passed since the last write of that key: the call ends there with this
\* payload.  From the 7th day on (or when the key was never written) the
\* answer is a miss, no value and no error, and the call goes on to the
\* known-service step with no request made yet.
C18_RoundTripUntilExpiry ==
  [][ /\ CacheWritten =>
           /\ age'[r.key] = 0
           /\ cache'[r.key] = r.val
           /\ live'[OriginOf(r.url)].val = r.val
      /\ CacheAnswered =>
           IF age[r.key] < 7
           THEN /\ r'.pc = "done"
                /\ r'.get = "hit"
                /\ ~r'.err
                /\ r'.val # ""
                /\ r'.val = live[OriginOf(r.url)].val
                /\ r'.calls = << >>
           ELSE /\ r'.pc = "known"
                /\ r'.get = "miss"
                /\ r'.val = ""
                /\ ~r'.err
                /\ r'.calls = << >> ]_vars

\* the entry written 7 days ago is gone: the call met a miss and went to the
\* network, where it found nothing, so that the key still has its old age
C18_Witness ==
  /\ hasCache
  /\ r.pc = "done"
  /\ r.get = "miss"
  /\ r.calls # << >>
  /\ r.err
  /\ age[r.key] = 7

\* the page fetch of the call ended in a network failure: client.Do gave an
\* error (timeout, DNS, connection refused) or stopped after ten requests
PageFetchFailed(rr) == rr.resp.act \in {"error", "refused"}

\* C22: A network failure abandons only the step it happens in: a call that
\* ends in an error has gone through the steps that remained, so that a page
\* fetch that failed on the network is never the last request of a call; the
\* standard locations of the site are still probed after it.
C22_NetworkFailureAbandonsStepOnly ==
  (r.pc = "done" /\ r.err /\ PageFetchFailed(r)) =>
    /\ LastCall(r).src # "page"
    /\ \E i \in 1..Len(r.calls) : r.calls[i].src = "probe"

\* the call got the page with a 200 and no icon from the standard locations,
\* and has returned
PastStandard(rr) ==
  /\ rr.pc = "done"
  /\ rr.route = "page"
  /\ \A i \in 1..Len(rr.calls) : rr.calls[i].src = "std" => rr.calls[i].val = ""

\* a download of an HTML candidate succeeded
CandidateSucceeded(rr) == \E i \in 1..Len(rr.calls) : rr.calls[i].src = "html" /\ rr.calls[i].val # ""

\* the call went through the regex step: it downloaded what the patterns
\* found, or went on to the default icon, which only the regex step leads to
RegexRan(rr) == \E i \in 1..Len(rr.calls) : rr.calls[i].src \in {"regex", "default"}

\* C23: After a page fetched with a 200 and a standard-location step without
\* an icon, the regex fallback runs exactly when no HTML candidate was
\* downloaded: never after a candidate succeeded, always otherwise, be it
\* that the page did not parse or that every candidate failed.
C23_RegexExactlyWithoutCandidate ==
  PastStandard(r) => (RegexRan(r) <=> ~CandidateSucceeded(r))

\* C24: The ctx of the caller reaches every network sub-call of a resolution,
\* the page fetch, the HEAD probes and the downloads: once it is cancelled no
\* probe finds a location and no request brings a payload.
C24_CancelStopsNetwork ==
  [][ (~CtxLive(r) /\ r'.pc # "idle") =>
        /\ (r'.std # r.std => r'.std = "")
        /\ (r'.calls # r.calls => LastCall(r').val = "") ]_vars

\* the default-icon download of the step brings the payload of the call
DefaultIconHelps == r.pc = "default" /\ r'.pc = "store"

\* the requests of the call so far show that the site did not serve u: the
\* HEAD probes stopped elsewhere or found nothing, or a GET of u failed
NotServed(rr, u) ==
  /\ \E i \in 1..Len(rr.calls) : rr.calls[i].src = "probe"
  /\ \A i \in 1..Len(rr.calls) :
       (rr.calls[i].src = "probe" /\ rr.calls[i].url = u) =>
         \E j \in (i + 1)..Len(rr.calls) : rr.calls[j] = Call("std", u, "")

\* C25 as the spec has it: the default-icon step is redundant.  The cascade
\* without it ends in an error and writes nothing wherever the step is
\* reached, so that the two agree exactly when no default-icon download ever
\* brings a payload.
C25_DefaultIconRedundant ==
  \A i \in 1..Len(r.calls) : r.calls[i].src = "default" => r.calls[i].val = ""

\* C25, amended: the default-icon step downloads the first standard location
\* of the fetched page's site once more, and is only reached when this
\* location was not served earlier in the call (HEAD not answered 200, or a
\* GET of it failed): it is redundant for a site that answers HEAD and GET
\* on /favicon.ico alike all through the call, and for no other.
C25_DefaultIconHelpsWhenAnswersDiffer ==
  [][ DefaultIconHelps =>
        /\ LastCall(r').src = "default"
        /\ LastCall(r').url = ProbeURL(r.base, 1)
        /\ LastCall(r').val = r'.val
        /\ NotServed(r, ProbeURL(r.base, 1)) ]_vars

\* HEAD found /favicon.ico, its GET failed, and the GET of the default-icon
\* step brought the icon, which was written to the cache
C25_Witness ==
  /\ r.pc = "done"
  /\ ~r.err
  /\ r.calls # << >>
  /\ LastCall(r) = Call("default", "https://example.com/favicon.ico", r.val)
  /\ \E i \in 1..Len(r.calls) : r.calls[i] = Call("std", "https://example.com/favicon.ico", "")
  /\ Len(r.puts) = 1
  /\ r.puts[1].val = r.val

\* C27: A call writes to the cache at most once, and what it writes is the
\* non-empty data URI its last request has just downloaded, under the origin
\* of the URL the caller passed, whatever site the page fetch ended on and
\* the icon came from.
C27_WriteUnderInputOrigin ==
  /\ Len(r.puts) <= 1
  /\ \A k \in 1..Len(r.puts) :
       /\ r.puts[k].key = OriginOf(r.url)
       /\ r.puts[k].val \in DataURIs
       /\ r.calls # << >>
       /\ r.puts[k].val = LastCall(r).val
       /\ r.pc = "done" /\ ~r.err /\ r.val = r.puts[k].val

\* https://example.com/page was redirected to cdn.example.net, whose
\* /favicon.ico is the icon, stored under https://example.com
C27_Witness ==
  /\ r.pc = "done"
  /\ r.url = U_ex1
  /\ \E i \in 1..Len(r.calls) : r.calls[i] = Call("page", Str(T_cdn), "")
  /\ r.calls # << >>
  /\ LastCall(r) = Call("std", "https://cdn.example.net/favicon.ico", r.val)
  /\ r.puts = << [key |-> "https://example.com", val |-> r.val, ok |-> TRUE] >>
  /\ cache["https://example.com"] = r.val

\* ------------------------------------------------------------------------
\* FetchFaviconBase64 as its callers see it
\* ------------------------------------------------------------------------
\* What the network discovery of lines 72-193 can give for u: a failure, or
\* any payload a download can give; a URL that does not parse only fails.
\* (DiscoverSound checks this against the steps above.)
Discover(u) ==
  IF ~WithScheme(u).ok THEN {Fail}
  ELSE {Fail} \cup { Ok(v) : v \in DataURIs }

\* every finished step-by-step call that went to the network has a result of Discover
DiscoverSound ==
  (r.pc = "done" /\ r.get # "hit") => [val |-> r.val, err |-> r.err] \in Discover(r.url)

\* lines 66-70: what the cache check gives: a hit with its payload, or no hit
Lookup(c, hc, u) ==
  IF ~hc THEN {Fail}
  ELSE { IF CacheHit(GetFaviconBase64(c, normalizeURL(u), up))
         THEN Ok(c[normalizeURL(u)])
         ELSE Fail : up \in BOOLEAN }

Stored_FailuresToo(c, hc, u, res) ==
  IF ~hc THEN {c} ELSE { StoreFaviconBase64(c, normalizeURL(u), (IF res.err THEN "none" ELSE res.val), TRUE) }

\* the cache after a discovery with result res
Stored(c, hc, u, res) ==
  IF res.err \/ ~hc THEN {c}
  ELSE { StoreFaviconBase64(c, normalizeURL(u), res.val, up) : up \in BOOLEAN }

\* the results of one whole call: the (string, error) and the cache it leaves
FetchOutcomes(c, hc, u) ==
  { [val |-> g.val, err |-> FALSE, cache |-> c] : g \in { x \in Lookup(c, hc, u) : ~x.err } }
  \cup
  ( IF \E g \in Lookup(c, hc, u) : g.err
    THEN UNION { { [val |-> q.val, err |-> q.err, cache |-> c2] : c2 \in Stored(c, hc, u, q) } :
                 q \in Discover(u) }
    ELSE {} )

\* ------------------------------------------------------------------------
\* Bookmark operations of the service (service.go)
\* ------------------------------------------------------------------------
Users == {1, 2}

\* the URLs the bookmark requests carry
ServiceURLs == {U_ex1, U_bad}

NoBookmark == [UserID |-> 0, URL |-> U_empty, Favicon |-> ""]

Bookmark(user, url, favicon) == [UserID |-> user, URL |-> url, Favicon |-> favicon]

\* an item of a BookmarkV2Request list
Item(url, favicon) == [URL |-> url, Favicon |-> favicon]

ImportItems == { Item(U_ex1, ""), Item(U_bad, ""), Item(U_ex1, "data:given") }

RECURSIVE SeqsUpTo(_, _)
SeqsUpTo(S, n) ==
  IF n = 0 THEN { << >> }
  ELSE SeqsUpTo(S, n - 1) \cup
       { Append(q, x) : q \in { y \in SeqsUpTo(S, n - 1) : Len(y) = n - 1 }, x \in S }

NoImport == [user |-> 0, items |-> << >>, i |-> 0]

NoOp ==
  [ op |-> "none", fetched |-> FALSE, fetchErr |-> FALSE, repoErr |-> FALSE,
    denied |-> FALSE, err |-> FALSE, id |-> 0, user |-> 0, ret |-> NoBookmark ]

Ended(op, fetched, fetchErr, repoErr, denied, err, id) ==
  [ op |-> op, fetched |-> fetched, fetchErr |-> fetchErr, repoErr |-> repoErr,
    denied |-> denied, err |-> err, id |-> id, user |-> 0, ret |-> NoBookmark ]

\* the call e, as made with userID and answered with the bookmark ret
\* (NoBookmark for the nil pointer)
CalledBy(userID, ret, e) == [e EXCEPT !.user = userID, !.ret = ret]

FetchAborts_OnError(o) == o.err

\* lines 454-456, 528-530, 652-654: the error of the resolution is logged
\* and the operation goes on
FetchAborts(o) == FALSE

\* lines 448-476
AddBookmark ==
  /\ imp = NoImport
  /\ nextID <= MaxStore
  /\ \E userID \in Users, url \in ServiceURLs, repoOK \in BOOLEAN :
       \E o \in FetchOutcomes(cache, hasCache, url) :
         /\ cache' = o.cache
         /\ IF FetchAborts(o)
            THEN /\ last' = Ended("AddBookmark", TRUE, o.err, FALSE, FALSE, TRUE, 0)
                 /\ UNCHANGED <<store, nextID>>
            ELSE IF repoOK
            THEN /\ store' = [store EXCEPT ![nextID] = Bookmark(userID, url, o.val)]
                 /\ nextID' = nextID + 1
                 /\ last' = Ended("AddBookmark", TRUE, o.err, FALSE, FALSE, FALSE, nextID)
            ELSE /\ last' = Ended("AddBookmark", TRUE, o.err, TRUE, FALSE, TRUE, 0)
                 /\ UNCHANGED <<store, nextID>>
  /\ UNCHANGED <<hasCache, live, age, r, imp, pool, batch, app, rl, auth>>

\* lines 496-500 of GetBookmarkByID: the row, or the repository's error
RepoGetFails(id, dbOK) == ~dbOK \/ id \notin 1..MaxStore \/ store[id] = NoBookmark

Forbidden_Nobody(userID, id) == FALSE

\* lines 502-505
Forbidden(userID, id) == store[id].UserID # userID

\* lines 511-546; patchURL is U_empty when the patch carries no URL
PatchBookmark ==
  /\ imp = NoImport
  /\ \E userID \in Users, id \in 1..MaxStore, patchURL \in ServiceURLs \cup {U_empty},
        dbOK \in BOOLEAN, repoOK \in BOOLEAN :
       IF RepoGetFails(id, dbOK)
       THEN /\ last' = CalledBy(userID, NoBookmark,
                                Ended("PatchBookmark", FALSE, FALSE, TRUE, FALSE, TRUE, id))
            /\ UNCHANGED <<store, cache>>
       ELSE IF Forbidden(userID, id)
       THEN /\ last' = CalledBy(userID, NoBookmark,
                                Ended("PatchBookmark", FALSE, FALSE, FALSE, TRUE, TRUE, id))
            /\ UNCHANGED <<store, cache>>
       ELSE IF patchURL = U_empty
       THEN /\ last' = CalledBy(userID, IF repoOK THEN store[id] ELSE NoBookmark,
                                Ended("PatchBookmark", FALSE, FALSE, ~repoOK, FALSE, ~repoOK, id))
            /\ UNCHANGED <<store, cache>>
       ELSE \E o \in FetchOutcomes(cache, hasCache, patchURL) :
              LET patched == Bookmark(store[id].UserID, patchURL, o.val)
              IN /\ cache' = o.cache
                 /\ IF FetchAborts(o)
                    THEN /\ last' = CalledBy(userID, NoBookmark,
                                Ended("PatchBookmark", TRUE, o.err, FALSE, FALSE, TRUE, id))
                         /\ UNCHANGED store
                    ELSE /\ last' = CalledBy(userID, IF repoOK THEN patched ELSE NoBookmark,
                                Ended("PatchBookmark", TRUE, o.err, ~repoOK, FALSE, ~repoOK, id))
                         /\ store' = IF repoOK THEN [store EXCEPT ![id] = patched] ELSE store
  /\ UNCHANGED <<hasCache, live, age, r, imp, nextID, pool, batch, app, rl, auth>>

\* lines 492-509
GetBookmarkByID ==
  /\ imp = NoImport
  /\ \E userID \in Users, id \in 1..MaxStore, dbOK \in BOOLEAN :
       last' = IF RepoGetFails(id, dbOK)
               THEN CalledBy(userID, NoBookmark,
                             Ended("GetBookmarkByID", FALSE, FALSE, TRUE, FALSE, TRUE, id))
               ELSE IF Forbidden(userID, id)
               THEN CalledBy(userID, NoBookmark,
                             Ended("GetBookmarkByID", FALSE, FALSE, FALSE, TRUE, TRUE, id))
               ELSE CalledBy(userID, store[id],
                             Ended("GetBookmarkByID", FALSE, FALSE, FALSE, FALSE, FALSE, id))
  /\ UNCHANGED <<hasCache, cache, live, age, r, store, nextID, imp, pool, batch, app, rl, auth>>

\* lines 548-566
DeleteBookmark ==
  /\ imp = NoImport
  /\ \E userID \in Users, id \in 1..MaxStore, dbOK \in BOOLEAN, repoOK \in BOOLEAN :
       IF RepoGetFails(id, dbOK)
       THEN /\ last' = CalledBy(userID, NoBookmark,
                                Ended("DeleteBookmark", FALSE, FALSE, TRUE, FALSE, TRUE, id))
            /\ UNCHANGED store
       ELSE IF Forbidden(userID, id)
       THEN /\ last' = CalledBy(userID, NoBookmark,
                                Ended("DeleteBookmark", FALSE, FALSE, FALSE, TRUE, TRUE, id))
            /\ UNCHANGED store
       ELSE /\ last' = CalledBy(userID, NoBookmark,
                                Ended("DeleteBookmark", FALSE, FALSE, ~repoOK, FALSE, ~repoOK, id))
            /\ store' = IF repoOK THEN [store EXCEPT ![id] = NoBookmark] ELSE store
  /\ UNCHANGED <<hasCache, cache, live, age, r, nextID, imp, pool, batch, app, rl, auth>>

\* line 632-636: an ImportBookmarksV2 request arrives
ImportBookmarksV2 ==
  /\ imp = NoImport
  /\ \E userID \in Users, items \in SeqsUpTo(ImportItems, MaxImport) :
       /\ items # << >>
       /\ nextID + Len(items) <= MaxStore + 1
       /\ imp' = [user |-> userID, items |-> items, i |-> 1]
  /\ UNCHANGED <<hasCache, cache, live, age, r, store, nextID, last, pool, batch, app, rl, auth>>

\* lines 638-663: one turn of the loop; line 665 after the last one
ImportItem ==
  /\ imp # NoImport
  /\ LET bookmark == imp.items[imp.i]
         goOn == IF imp.i = Len(imp.items) THEN NoImport ELSE [imp EXCEPT !.i = imp.i + 1]
     IN \E repoOK \in BOOLEAN :
          \E o \in IF bookmark.Favicon = ""
                   THEN FetchOutcomes(cache, hasCache, bookmark.URL)
                   ELSE { [val |-> bookmark.Favicon, err |-> FALSE, cache |-> cache] } :
            /\ cache' = o.cache
            /\ IF bookmark.Favicon = "" /\ FetchAborts(o)
               THEN /\ last' = Ended("ImportBookmarksV2", TRUE, o.err, FALSE, FALSE, TRUE, 0)
                    /\ imp' = NoImport
                    /\ UNCHANGED <<store, nextID>>
               ELSE IF repoOK
               THEN /\ store' = [store EXCEPT ![nextID] = Bookmark(imp.user, bookmark.URL, o.val)]
                    /\ nextID' = nextID + 1
                    /\ last' = Ended("ImportBookmarksV2", bookmark.Favicon = "", o.err,
                                     FALSE, FALSE, FALSE, nextID)
                    /\ imp' = goOn
               ELSE /\ last' = Ended("ImportBookmarksV2", bookmark.Favicon = "", o.err,
                                     TRUE, FALSE, TRUE, 0)
                    /\ imp' = NoImport
                    /\ UNCHANGED <<store, nextID>>
  /\ UNCHANGED <<hasCache, live, age, r, pool, batch, app, rl, auth>>

ServiceIdle ==
  /\ store = [id \in 1..MaxStore |-> NoBookmark]
  /\ nextID = 1
  /\ imp = NoImport
  /\ last = NoOp

\* the three operations on one bookmark that go through the ownership test
OwnerOps == {"GetBookmarkByID", "PatchBookmark", "DeleteBookmark"}

\* the step is a call of one of OwnerOps on the stored bookmark id by somebody
\* else than its owner
ForeignCall(id) ==
  /\ last' # last
  /\ last'.op \in OwnerOps
  /\ last'.id = id
  /\ store[id] # NoBookmark
  /\ last'.user # store[id].UserID

\* C29: GetBookmarkByID, PatchBookmark and DeleteBookmark called with a userID
\* that is not the owner's fail, with the Forbidden error whenever the
\* repository delivered the row, hand out no bookmark, run no icon resolution
\* and leave rows and cache as they were; a stored row changes or disappears
\* only in a successful PatchBookmark or DeleteBookmark of its owner, who
\* stays its owner, and a bookmark is handed out only to its owner.
C29_OwnerOnly ==
  [][ \A id \in 1..MaxStore :
        /\ ForeignCall(id) =>
              /\ last'.err
              /\ last'.denied \/ last'.repoErr
              /\ ~(last'.denied /\ last'.repoErr)
              /\ ~last'.fetched
              /\ last'.ret = NoBookmark
              /\ store' = store
              /\ cache' = cache
        /\ (store[id] # NoBookmark /\ store'[id] # store[id]) =>
              /\ last'.op \in {"PatchBookmark", "DeleteBookmark"}
              /\ last'.id = id
              /\ last'.user = store[id].UserID
              /\ ~last'.err
              /\ store'[id] # NoBookmark => store'[id].UserID = store[id].UserID
        /\ (last'.op \in OwnerOps /\ last'.id = id /\ last'.ret # NoBookmark) =>
              /\ last'.ret.UserID = last'.user
              /\ ~last'.err ]_vars

\* user 2 asked to delete a bookmark of user 1, was refused, and the row is
\* still there
C29_Witness ==
  /\ last.op = "DeleteBookmark"
  /\ last.denied
  /\ last.id \in 1..MaxStore
  /\ store[last.id] # NoBookmark
  /\ store[last.id].UserID # last.user
  /\ store[last.id].Favicon # ""

\* C5: A failing icon resolution never fails AddBookmark, PatchBookmark (with
\* a URL) or ImportBookmarksV2: whenever the operation ran a resolution, it
\* fails exactly when its repository call fails, and when the resolution
\* failed and the repository call did not, the row is persisted with an
\* empty Favicon.
C5_ResolutionNeverFailsCaller ==
  (last.op \in {"AddBookmark", "PatchBookmark", "ImportBookmarksV2"} /\ last.fetched) =>
    /\ last.err <=> last.repoErr
    /\ (last.fetchErr /\ ~last.repoErr) =>
         /\ last.id \in 1..MaxStore
         /\ store[last.id] # NoBookmark
         /\ store[last.id].Favicon = ""

\* a patch to a URL that does not resolve replaced a stored icon by the empty one
C5_Witness ==
  /\ last.op = "PatchBookmark"
  /\ last.fetchErr
  /\ ~last.err
  /\ store[last.id].URL = U_bad
  /\ store[last.id].Favicon = ""
  /\ \E k \in CacheKeys : cache[k] # ""

\* ------------------------------------------------------------------------
\* fetchFaviconsParallel: the semaphore and the WaitGroup (part_008, 66-90)
\* ------------------------------------------------------------------------
\* The goroutines of one call run the same code, so the call is followed by
\* how many of them stand at each position:
\*   semaphore    blocked at "semaphore <- struct{}{}"
\*   getFavicon   holding a slot, inside getFavicon
\*   releaseOk    holding a slot, the resolution gave a payload, deferred release due
\*   releaseFail  holding a slot, the resolution failed, deferred release due
\*   Done         slot given back, deferred wg.Done() due
Positions == {"semaphore", "getFavicon", "releaseOk", "releaseFail", "Done"}

PoolIdle ==
  pool = [ main |-> "idle", n |-> 0, i |-> 0, wg |-> 0, semaphore |-> 0,
           at |-> [p \in Positions |-> 0], spawned |-> 0 ]

Move(at, from, to) == [at EXCEPT ![from] = at[from] - 1, ![to] = at[to] + 1]

\* the goroutines between "semaphore <- struct{}{}" and "<-semaphore"
InFlight == pool.at["getFavicon"] + pool.at["releaseOk"] + pool.at["releaseFail"]

\* line 66: the call, with PoolTasks records; which of them have an empty URL
\* is seen when the loop reaches them
PoolCall ==
  /\ pool.main = "idle"
  /\ pool' = [pool EXCEPT !.main = "range", !.n = PoolTasks]
  /\ UNCHANGED <<hasCache, cache, live, age, r, store, nextID, imp, last, batch, app, rl, auth>>

\* lines 71-87: one turn of the loop: skip an empty URL, else wg.Add(1) and go
PoolRange ==
  /\ pool.main = "range"
  /\ pool.i < pool.n
  /\ \E emptyURL \in BOOLEAN :
       pool' = IF emptyURL
               THEN [pool EXCEPT !.i = pool.i + 1]
               ELSE [pool EXCEPT !.i = pool.i + 1,
                                 !.wg = pool.wg + 1,
                                 !.spawned = pool.spawned + 1,
                                 !.at = [pool.at EXCEPT !["semaphore"] = pool.at["semaphore"] + 1]]
  /\ UNCHANGED <<hasCache, cache, live, age, r, store, nextID, imp, last, batch, app, rl, auth>>

CanAcquire_Always(held) == TRUE

\* line 69: a send on a channel of capacity 10 blocks while 10 values are in it
CanAcquire(held) == held < SemCap

\* line 80
PoolAcquire ==
  /\ pool.at["semaphore"] > 0
  /\ CanAcquire(pool.semaphore)
  /\ pool' = [pool EXCEPT !.semaphore = pool.semaphore + 1,
                          !.at = Move(pool.at, "semaphore", "getFavicon")]
  /\ UNCHANGED <<hasCache, cache, live, age, r, store, nextID, imp, last, batch, app, rl, auth>>

\* lines 83-85: the resolution ends, with a payload or with "" after an error
PoolGetFavicon ==
  /\ pool.at["getFavicon"] > 0
  /\ \E failed \in BOOLEAN :
       pool' = [pool EXCEPT
                  !.at = Move(pool.at, "getFavicon", IF failed THEN "releaseFail" ELSE "releaseOk")]
  /\ UNCHANGED <<hasCache, cache, live, age, r, store, nextID, imp, last, batch, app, rl, auth>>

ReleasesSlot_OnSuccessOnly(failed) == ~failed

\* line 81: the release is deferred, so it runs however the goroutine ends
ReleasesSlot(failed) == TRUE

\* line 81, run at the end of the goroutine
PoolRelease ==
  /\ \E failed \in BOOLEAN :
       LET from == IF failed THEN "releaseFail" ELSE "releaseOk"
       IN /\ pool.at[from] > 0
          /\ pool' = [pool EXCEPT
                        !.semaphore = IF ReleasesSlot(failed) THEN pool.semaphore - 1
                                                               ELSE pool.semaphore,
                        !.at = Move(pool.at, from, "Done")]
  /\ UNCHANGED <<hasCache, cache, live, age, r, store, nextID, imp, last, batch, app, rl, auth>>

\* line 78, run last
PoolDone ==
  /\ pool.at["Done"] > 0
  /\ pool' = [pool EXCEPT !.wg = pool.wg - 1,
                          !.at = [pool.at EXCEPT !["Done"] = pool.at["Done"] - 1]]
  /\ UNCHANGED <<hasCache, cache, live, age, r, store, nextID, imp, last, batch, app, rl, auth>>

\* line 89: wg.Wait() returns when the counter is zero
PoolWait ==
  /\ pool.main = "range"
  /\ pool.i = pool.n
  /\ pool.wg = 0
  /\ pool' = [pool EXCEPT !.main = "returned"]
  /\ UNCHANGED <<hasCache, cache, live, age, r, store, nextID, imp, last, batch, app, rl, auth>>

PoolTask ==
  \/ PoolAcquire
  \/ PoolGetFavicon
  \/ PoolRelease
  \/ PoolDone

\* C6: During fetchFaviconsParallel at most 10 goroutines are between
\* acquiring and releasing the semaphore, whatever the number of records; the
\* others stay blocked at the semaphore.
C6_AtMostTenInFlight ==
  /\ InFlight <= SemCap
  /\ pool.semaphore = InFlight

\* ten resolutions in flight and further goroutines waiting for a slot
C6_Witness ==
  /\ InFlight = SemCap
  /\ pool.at["semaphore"] >= 2

\* C7: fetchFaviconsParallel returns only after every spawned goroutine has
\* finished (none running, none holding a slot), and, every resolution
\* terminating, a call that has started eventually returns.
C7_ReturnsAfterAllTasks ==
  /\ [](pool.main = "returned" =>
          /\ \A p \in Positions : pool.at[p] = 0
          /\ pool.semaphore = 0
          /\ pool.wg = 0
          /\ pool.i = pool.n)
  /\ (pool.main = "range" ~> pool.main = "returned")

\* a call that spawned more goroutines than there are slots has returned
C7_Witness ==
  /\ pool.main = "returned"
  /\ pool.spawned > SemCap

\* ------------------------------------------------------------------------
\* fetchFaviconsParallel: the records (part_008, 52-90)
\* ------------------------------------------------------------------------
\* model.Bookmark as traverseHTML builds it (lines 119-122): Title and URL,
\* no Favicon.  traverseHTML never appends an empty URL; the record with one
\* is there for the test of line 72.
Record(title, url) == [Title |-> title, URL |-> url, Favicon |-> ""]

BatchRecords ==
  { Record("a", U_ex1), Record("b", U_ex2), Record("c", U_bad), Record("", U_empty) }

BatchInputs == SeqsUpTo(BatchRecords, MaxBatch)

Slots == 1..MaxBatch

NoRes == [ran |-> FALSE, val |-> "", err |-> FALSE]

Ran(q) == [ran |-> TRUE, val |-> q.val, err |-> q.err]

NoTask == [pc |-> "none", favicon |-> ""]

NewBatch(main, bms) ==
  [ main |-> main, bookmarks |-> bms, in |-> bms, i |-> 0, wg |-> 0, semaphore |-> 0,
    task |-> [x \in Slots |-> NoTask],
    res |-> [x \in Slots |-> NoRes],
    writes |-> [x \in Slots |-> 0],
    by |-> [x \in Slots |-> {}],
    start |-> << >>,
    put |-> [x \in Slots |-> "none"] ]

BatchIdle == batch = NewBatch("idle", << >>)

\* line 66: the call
BatchCall ==
  /\ batch.main \in {"idle", "returned"}
  /\ \E bms \in BatchInputs : batch' = [NewBatch("range", bms) EXCEPT !.start = cache]
  /\ UNCHANGED <<hasCache, cache, live, age, r, store, nextID, imp, last, pool, app, rl, auth>>

Skips_Never(url) == FALSE

\* lines 72-74
Skips(url) == url = U_empty

\* lines 71-87: one turn of the loop
BatchRange ==
  /\ batch.main = "range"
  /\ batch.i < Len(batch.bookmarks)
  /\ LET idx == batch.i + 1
     IN batch' = IF Skips(batch.bookmarks[idx].URL)
                 THEN [batch EXCEPT !.i = idx]
                 ELSE [batch EXCEPT !.i = idx, !.wg = batch.wg + 1,
                                    !.task[idx] = [pc |-> "semaphore", favicon |-> ""]]
  /\ UNCHANGED <<hasCache, cache, live, age, r, store, nextID, imp, last, pool, app, rl, auth>>

\* line 80
BatchAcquire(idx) ==
  /\ batch.task[idx].pc = "semaphore"
  /\ CanAcquire(batch.semaphore)
  /\ batch' = [batch EXCEPT !.semaphore = batch.semaphore + 1,
                            !.task[idx].pc = "getFavicon"]
  /\ UNCHANGED <<hasCache, cache, live, age, r, store, nextID, imp, last, pool, app, rl, auth>>

\* lines 52-56 and the cache check of FetchFaviconBase64 (favicon.go 66-70)
BatchGetFavicon(idx) ==
  /\ batch.task[idx].pc = "getFavicon"
  /\ LET bookmarkURL == batch.bookmarks[idx].URL
     IN IF bookmarkURL = U_empty
        THEN batch' = [batch EXCEPT !.task[idx] = [pc |-> "assign", favicon |-> ""]]
        ELSE \E g \in Lookup(cache, hasCache, bookmarkURL) :
               batch' = IF g.err
                        THEN [batch EXCEPT !.task[idx].pc = "discover"]
                        ELSE [batch EXCEPT !.task[idx] = [pc |-> "assign", favicon |-> g.val],
                                           !.res[idx] = Ran(g)]
  /\ UNCHANGED <<hasCache, cache, live, age, r, store, nextID, imp, last, pool, app, rl, auth>>

\* favicon.go 72-193 and lines 57-62: the discovery, its cache write, and ""
\* in place of an error
BatchDiscover(idx) ==
  /\ batch.task[idx].pc = "discover"
  /\ LET bookmarkURL == batch.bookmarks[idx].URL
     IN \E q \in Discover(bookmarkURL) :
          /\ cache' \in Stored(cache, hasCache, bookmarkURL, q)
          /\ batch' = [batch EXCEPT
                         !.task[idx] = [pc |-> "assign",
                                        favicon |-> IF q.err THEN "" ELSE q.val],
                         !.res[idx] = Ran(q),
                         !.put[idx] = IF cache' = cache /\ (q.err \/ ~hasCache) THEN "none"
                                      ELSE IF ~q.err /\ cache'[normalizeURL(bookmarkURL)] = q.val
                                           THEN "ok" ELSE "failed"]
  /\ UNCHANGED <<hasCache, live, age, r, store, nextID, imp, last, pool, app, rl, auth>>

\* the value of the loop variable of line 71 at this moment
LoopVar ==
  IF batch.i < Len(batch.bookmarks) THEN batch.i + 1 ELSE Len(batch.bookmarks)

WriteIndex_LoopVar(idx, i) == i

\* lines 77, 87: the goroutine gets the index as its argument
WriteIndex(idx, i) == idx

\* line 85
BatchAssign(idx) ==
  /\ batch.task[idx].pc = "assign"
  /\ LET to == WriteIndex(idx, LoopVar)
     IN batch' = [batch EXCEPT
                    !.bookmarks[to].Favicon = batch.task[idx].favicon,
                    !.writes[to] = batch.writes[to] + 1,
                    !.by[to] = batch.by[to] \cup {idx},
                    !.task[idx].pc = "release"]
  /\ UNCHANGED <<hasCache, cache, live, age, r, store, nextID, imp, last, pool, app, rl, auth>>

\* line 81
BatchRelease(idx) ==
  /\ batch.task[idx].pc = "release"
  /\ batch' = [batch EXCEPT !.semaphore = batch.semaphore - 1,
                            !.task[idx].pc = "Done"]
  /\ UNCHANGED <<hasCache, cache, live, age, r, store, nextID, imp, last, pool, app, rl, auth>>

\* line 78
BatchDone(idx) ==
  /\ batch.task[idx].pc = "Done"
  /\ batch' = [batch EXCEPT !.wg = batch.wg - 1,
                            !.task[idx].pc = "exited"]
  /\ UNCHANGED <<hasCache, cache, live, age, r, store, nextID, imp, last, pool, app, rl, auth>>

\* line 89
BatchWait ==
  /\ batch.main = "range"
  /\ batch.i = Len(batch.bookmarks)
  /\ batch.wg = 0
  /\ batch' = [batch EXCEPT !.main = "returned"]
  /\ UNCHANGED <<hasCache, cache, live, age, r, store, nextID, imp, last, pool, app, rl, auth>>

BatchTask(idx) ==
  \/ BatchAcquire(idx)
  \/ BatchGetFavicon(idx)
  \/ BatchDiscover(idx)
  \/ BatchAssign(idx)
  \/ BatchRelease(idx)
  \/ BatchDone(idx)

Records == 1..Len(batch.bookmarks)

\* C8: When the batch call has returned, a record whose resolution failed has
\* an empty Favicon and every other record with a URL has exactly the payload
\* its own resolution returned, whatever the interleaving of the goroutines.
C8_OwnResolutionOnly ==
  batch.main = "returned" =>
    \A idx \in Records :
      batch.in[idx].URL # U_empty =>
        /\ batch.res[idx].ran
        /\ batch.bookmarks[idx].Favicon =
             (IF batch.res[idx].err THEN "" ELSE batch.res[idx].val)

\* a returned batch in which one resolution failed and a sibling's gave a payload
C8_Witness ==
  /\ batch.main = "returned"
  /\ \E x \in Records, y \in Records :
       /\ batch.res[x].ran /\ batch.res[x].err
       /\ batch.bookmarks[x].Favicon = ""
       /\ batch.res[y].ran /\ ~batch.res[y].err
       /\ batch.bookmarks[y].Favicon = batch.res[y].val
       /\ batch.bookmarks[y].Favicon # ""

\* C9: In fetchFaviconsParallel a goroutine writes only the Favicon of its
\* own record, a record is written by at most one goroutine and at most once,
\* URL, Title, length and order of the list stay as they were, and a record
\* with an empty URL gets no goroutine, no resolution and no write.
C9_Frame ==
  /\ Len(batch.bookmarks) = Len(batch.in)
  /\ \A idx \in Records :
       /\ batch.bookmarks[idx].URL = batch.in[idx].URL
       /\ batch.bookmarks[idx].Title = batch.in[idx].Title
       /\ batch.writes[idx] <= 1
       /\ batch.by[idx] \subseteq {idx}
       /\ batch.writes[idx] = 0 => batch.bookmarks[idx].Favicon = batch.in[idx].Favicon
       /\ batch.in[idx].URL = U_empty =>
            /\ batch.task[idx].pc = "none"
            /\ ~batch.res[idx].ran
            /\ batch.writes[idx] = 0
  /\ \A x \in Slots \ Records : batch.task[x].pc = "none" /\ batch.writes[x] = 0

\* a returned batch with a skipped record before a record that was written
C9_Witness ==
  /\ batch.main = "returned"
  /\ Len(batch.bookmarks) = 2
  /\ batch.in[1].URL = U_empty
  /\ batch.writes[1] = 0
  /\ batch.writes[2] = 1
  /\ batch.by[2] = {2}
  /\ batch.bookmarks[2].Favicon # ""

\* the records of the batch whose URL has the cache key k
OfKey(k) == { idx \in Records : batch.in[idx].URL # U_empty /\ normalizeURL(batch.in[idx].URL) = k }

\* the payloads the resolutions of these records returned
Payloads(S) == { batch.res[idx].val : idx \in { x \in S : batch.res[x].ran /\ ~batch.res[x].err } }

\* C28: When the resolutions of a batch's records of one origin have all
\* finished, in whatever order their cache checks, discoveries and cache
\* writes took place, the entry of the origin is the one the batch found or
\* the payload one of the resolutions that succeeded returned; it is such a
\* payload as soon as Redis took one of their writes, and it is the entry the
\* batch found when all of them failed.
C28_EntryFromASuccessfulResolution ==
  batch.main = "returned" =>
    \A k \in CacheKeys :
      /\ cache[k] \in {batch.start[k]} \cup Payloads(OfKey(k))
      /\ (\E idx \in OfKey(k) : batch.put[idx] = "ok") => cache[k] \in Payloads(OfKey(k))
      /\ Payloads(OfKey(k)) = {} => cache[k] = batch.start[k]

\* https://example.com/page and example.com both missed the empty cache, found
\* different icons and wrote them: the entry is one of the two
C28_Witness ==
  /\ batch.main = "returned"
  /\ Len(batch.in) = 2
  /\ OfKey("https://example.com") = {1, 2}
  /\ batch.start["https://example.com"] = ""
  /\ batch.put[1] = "ok" /\ batch.put[2] = "ok"
  /\ batch.res[1].val # batch.res[2].val
  /\ cache["https://example.com"] \in {batch.res[1].val, batch.res[2].val}

\* ------------------------------------------------------------------------
\* The candidates of a page (favicon.go 160-169, 274-339)
\* ------------------------------------------------------------------------
\* the candidate list of the call is there
HasCandidates(rr) ==
  /\ rr.route = "page"
  /\ rr.pc \in {"cand", "regex", "default", "store"}
  /\ rr.ci >= 1

\* the <link> elements the spec lets through: a recognized rel and an href
\* that is there and parses
Recognized(e) ==
  /\ e.tag = "link"
  /\ RelNorm(e.rel) \in
       { "icon", "shortcut icon", "apple-touch-icon", "apple-touch-icon-precomposed",
         "fluid-icon", "mask-icon", "alternate icon" }
  /\ e.href \notin {"", "/%zz.png"}

\* the sizes attribute advertises 32x32, 64x64 or 128x128
LargeSize(e) == e.sizes \in {"32x32", "16x16 32x32", "64x64", "128x128"}

\* the priority the spec gives an element
SpecPriority(e) ==
  (CASE RelNorm(e.rel) = "icon" -> 1
     [] RelNorm(e.rel) = "shortcut icon" -> 2
     [] RelNorm(e.rel) = "apple-touch-icon" -> 3
     [] RelNorm(e.rel) = "apple-touch-icon-precomposed" -> 4
     [] RelNorm(e.rel) = "fluid-icon" -> 5
     [] RelNorm(e.rel) = "mask-icon" -> 6
     [] OTHER -> 7) - (IF LargeSize(e) THEN 1 ELSE 0)

\* where in the page the element of a candidate stands (the hrefs of a page differ)
PlaceOf(c, rr) ==
  CHOOSE i \in 1..Len(rr.body) :
    Recognized(rr.body[i]) /\ ResolveReference(rr.base, rr.body[i].href) = c.URL

\* the URLs of the candidate downloads made so far
HtmlCalls(rr) ==
  LET html == SelectSeq(rr.calls, LAMBDA c : c.src = "html")
  IN [i \in 1..Len(html) |-> html[i].url]

C15_StableSort ==
  HasCandidates(r) =>
    \A i, j \in 1..Len(r.cands) :
      (i < j /\ r.cands[i].Priority = r.cands[j].Priority) =>
        PlaceOf(r.cands[i], r) < PlaceOf(r.cands[j], r)

NoApp == [fn |-> "none"]

HelpersIdle == app = NoApp

\* what a server may answer to the GET of an image URL; an error with a
\* status is a connection that breaks while the body is read
ImageResponses ==
  { Resp(e, s, b, c) : e \in BOOLEAN, s \in {StatusOK, 204, 301, 302, 404},
                       b \in {"", "png1", "ico2"}, c \in {"", "image/png"} }

\* what the redirect's target would answer, were it asked
TargetResponses == { Resp(FALSE, StatusOK, "png1", "image/png"), Resp(FALSE, 404, "nf", "text/html") }

\* http.Client without a CheckRedirect: a 3xx is followed
clientGet_FollowsRedirects(first, second) ==
  IF ~first.err /\ first.status \in 300..399 THEN [resp |-> second, gets |-> 2] ELSE [resp |-> first, gets |-> 1]

\* lines 198-205: CheckRedirect returns http.ErrUseLastResponse, so that the
\* first response is the one client.Get gives, a 3xx included
clientGet(first, second) == [resp |-> first, gets |-> 1]

\* downloadAndEncodeToBase64(imageURL) where the server answers first, and
\* the target of a redirect would answer second
Download ==
  \E first \in ImageResponses, second \in TargetResponses :
    LET got == clientGet(first, second)
    IN /\ app' = [fn |-> "downloadAndEncodeToBase64", first |-> first, second |-> second,
                  gets |-> got.gets, res |-> downloadAndEncodeToBase64(got.resp)]
       /\ UNCHANGED <<hasCache, cache, live, age, r, store, nextID, imp, last, pool, batch, rl, auth>>

\* the answer is a 200 with a body, read to its end
GoodImage(resp) == ~resp.err /\ resp.status = StatusOK /\ resp.body # ""

\* C19: downloadAndEncodeToBase64 makes one GET and follows no redirect.  It
\* succeeds exactly when that GET is answered 200 with a non-empty body, and
\* then gives data:<content-type>;base64,<the body in base64>, with
\* image/x-icon for an absent Content-Type; a redirect, any other status, a
\* transport error or an empty body gives an error and no value.
C19_DownloadContract ==
  app.fn = "downloadAndEncodeToBase64" =>
    /\ app.gets = 1
    /\ ~app.res.err <=> GoodImage(app.first)
    /\ GoodImage(app.first) =>
         app.res.val = "data:" \o (IF app.first.ctype = "" THEN "image/x-icon" ELSE app.first.ctype)
                          \o ";base64," \o Base64(app.first.body)
    /\ ~GoodImage(app.first) => app.res.val = ""

\* a 200 with the body "ico2" and no Content-Type
C19_Witness ==
  /\ app.fn = "downloadAndEncodeToBase64"
  /\ app.first = Resp(FALSE, StatusOK, "ico2", "")
  /\ app.res = Ok("data:image/x-icon;base64,aWNvMg==")

\* what the thirteen locations of a site may answer to HEAD: anything on the
\* first three, found or not on the last two, 404 between them
ProbeAnswers ==
  { [i \in 1..13 |-> IF i <= 3 THEN h[i] ELSE IF i = 12 THEN t[1] ELSE IF i = 13 THEN t[2] ELSE H_404] :
      h \in [1..3 -> HeadResponses], t \in [1..2 -> {H_404, H_200}] }

\* checkStandardFaviconLocations(baseURL) on a site that answers as answers says
Probe ==
  \E base \in {U_ex1, T_cdn}, answers \in ProbeAnswers :
    /\ app' = [fn |-> "checkStandardFaviconLocations", base |-> base, answers |-> answers,
               res |-> checkStandardFaviconLocations(base, answers)]
    /\ UNCHANGED <<hasCache, cache, live, age, r, store, nextID, imp, last, pool, batch, rl, auth>>

\* the places of the list that answer 200
Answering(answers) ==
  { i \in 1..Len(standardPaths) : ~answers[i].err /\ answers[i].status = 200 }

First(S) == CHOOSE i \in S : \A j \in S : i <= j

\* C20: checkStandardFaviconLocations asks the paths of the list in list
\* order and returns scheme://host+path of the first that answers 200, a
\* transport error or another status (a redirect included) sending it to the
\* next path; no path after that one is asked, and when none answers 200 all
\* thirteen have been asked and nothing is returned.
C20_FirstAnswering ==
  app.fn = "checkStandardFaviconLocations" =>
    IF Answering(app.answers) = {}
    THEN /\ app.res.url = ""
         /\ app.res.probes = Len(standardPaths)
    ELSE /\ app.res.url = Scheme(app.base) \o "://" \o app.base.host
                            \o standardPaths[First(Answering(app.answers))]
         /\ app.res.probes = First(Answering(app.answers))

\* an error, a redirect and a 200 on the third path, and a 200 on the last
\* one that is never asked
C20_Witness ==
  /\ app.fn = "checkStandardFaviconLocations"
  /\ app.base = U_ex1
  /\ app.answers[1] = H_err
  /\ app.answers[2] = H_301
  /\ app.answers[3] = H_200
  /\ app.answers[13] = H_200
  /\ app.res.url = "https://example.com/apple-touch-icon-120x120.png"
  /\ app.res.probes = 3

\* ------------------------------------------------------------------------
\* normalizeURL on its own
\* ------------------------------------------------------------------------
\* the strings normalizeURL is given: with and without a prefix, with a path,
\* a query and a fragment, with a port, with a prefix in capitals (which is
\* no prefix: url.Parse then finds the host "HTTP:"), the empty string, and
\* hosts url.Parse refuses
NormalizeInputs ==
  { Url(pre, host, path, host \notin {"exa mple.com", "%zz"}) :
      pre \in {"", "http://", "https://"},
      host \in {"example.com", "www.GitHub.com", "example.com:8080", "HTTP:", "", "exa mple.com", "%zz"},
      path \in {"", "/page", "/page?q=1#top", "//example.com"} }

\* the string normalizeURL returned for u, read as a URL again
AsURL(u) ==
  IF u.ok
  THEN Url((IF u.pre = "http://" THEN "http://" ELSE "https://"), u.host, "", TRUE)
  ELSE Url((IF u.pre = "" THEN "https://" ELSE u.pre), u.host, u.path, FALSE)

\* normalizeURL(u), and normalizeURL of what it returned
Normalize ==
  \E u \in NormalizeInputs :
    /\ app' = [fn |-> "normalizeURL", u |-> u, out |-> normalizeURL(u),
               again |-> normalizeURL(AsURL(u))]
    /\ UNCHANGED <<hasCache, cache, live, age, r, store, nextID, imp, last, pool, batch, rl, auth>>

\* C21: normalizeURL always returns a string.  It is scheme://host of the
\* input, where the scheme is https unless the input starts with http://, so
\* that path, query and fragment have no part in it; an input url.Parse
\* refuses comes back as it is, with https:// in front when it had no prefix.
\* What normalizeURL returns is a fixed point of normalizeURL.
C21_NormalizeToOrigin ==
  app.fn = "normalizeURL" =>
    /\ app.out = IF app.u.ok
                 THEN (IF app.u.pre = "http://" THEN "http://" ELSE "https://") \o app.u.host
                 ELSE (IF app.u.pre = "" THEN "https://" ELSE app.u.pre) \o app.u.host \o app.u.path
    /\ app.out = Str(AsURL(app.u))
    /\ app.again = app.out

\* example.com/page?q=1#top gives https://example.com
C21_Witness ==
  /\ app.fn = "normalizeURL"
  /\ app.u = Url("", "example.com", "/page?q=1#top", TRUE)
  /\ app.out = "https://example.com"
  /\ app.again = "https://example.com"

\* ------------------------------------------------------------------------
\* Rate limiter (middleware/ratelimit.go)
\* ------------------------------------------------------------------------
\* how many requests are in the middleware at the same time
MaxConcurrent == 2
\* how many admitted requests of a window are counted
MaxAdmit == 8

\* createRateLimit(keyPrefix, maxAttempts, window), the window in minutes
RateLimit(keyPrefix, maxAttempts, window) ==
  [keyPrefix |-> keyPrefix, maxAttempts |-> maxAttempts, window |-> window]

LoginRateLimit == RateLimit("login", 5, 15)
PasswordResetRateLimit == RateLimit("password_reset", 3, 60)
EmailVerificationRateLimit == RateLimit("email_verification", 5, 10)

RateLimits == {LoginRateLimit, PasswordResetRateLimit, EmailVerificationRateLimit}

ClientIPs == {"10.0.0.1", "10.0.0.2"}

\* line 53: fmt.Sprintf("rate_limit:%s:%s", keyPrefix, clientIP)
RateKey(lim, clientIP) == "rate_limit:" \o lim.keyPrefix \o ":" \o clientIP

\* One key is followed at a time (the keys are different Redis keys): count
\* is its value, 0 when the key is absent; admitted and rejected tell how
\* many requests went to the handler since the key last expired and whether
\* one was turned away; faulty, whether a Redis command failed since then;
\* req, where each request in the middleware stands.
NoRate ==
  [ key |-> "", lim |-> RateLimit("", 0, 0), count |-> 0, admitted |-> 0, rejected |-> FALSE,
    faulty |-> FALSE, req |-> [i \in 1..MaxConcurrent |-> "idle"] ]

RateIdle == rl = NoRate

RateQuiet == rl.count = 0 /\ rl.admitted = 0 /\ \A i \in 1..MaxConcurrent : rl.req[i] = "idle"

\* lines 52-74: the GET of the counter and the test of it.  A Redis error
\* lets the request through; attempts >= maxAttempts aborts it.
RateGet(i) ==
  /\ rl.req[i] = "idle"
  /\ rl.admitted < MaxAdmit
  /\ \E lim \in RateLimits, clientIP \in ClientIPs, up \in BOOLEAN :
       LET key == RateKey(lim, clientIP)
           on == IF rl.key = key THEN rl ELSE [NoRate EXCEPT !.key = key, !.lim = lim]
           attempts == on.count
       IN /\ rl.key = key \/ RateQuiet
          /\ rl' = IF ~up
                   THEN [on EXCEPT !.admitted = on.admitted + 1, !.faulty = TRUE]
                   ELSE IF attempts >= lim.maxAttempts
                        THEN [on EXCEPT !.rejected = TRUE]
                        ELSE [on EXCEPT !.req[i] = "counting"]
  /\ UNCHANGED <<hasCache, cache, live, age, r, store, nextID, imp, last, pool, batch, app, auth>>

\* lines 76-84: INCR and EXPIRE in one pipeline, whose error is only logged,
\* then the handler
RateIncr(i) ==
  /\ rl.req[i] = "counting"
  /\ \E up \in BOOLEAN :
       rl' = [rl EXCEPT !.count = IF up THEN rl.count + 1 ELSE rl.count,
                        !.faulty = rl.faulty \/ ~up,
                        !.admitted = rl.admitted + 1,
                        !.req[i] = "idle"]
  /\ UNCHANGED <<hasCache, cache, live, age, r, store, nextID, imp, last, pool, batch, app, auth>>

\* the window has passed since the last EXPIRE: Redis drops the key
WindowExpires ==
  /\ rl.count > 0 \/ rl.admitted > 0
  /\ rl' = [rl EXCEPT !.count = 0, !.admitted = 0, !.rejected = FALSE, !.faulty = FALSE]
  /\ UNCHANGED <<hasCache, cache, live, age, r, store, nextID, imp, last, pool, batch, app, auth>>

\* C26: While Redis answers, at most maxAttempts requests of one IP on one
\* limited endpoint go to the handler within a window (5 for login, 3 for
\* password reset, 5 for email verification), also when requests of that IP
\* are in the middleware at the same time.
C26_AtMostMaxAttempts ==
  ~rl.faulty => rl.admitted <= rl.lim.maxAttempts

\* ------------------------------------------------------------------------
\* Refresh tokens and their revocation (service.go, jwtauth, repository)
\* ------------------------------------------------------------------------
\* the version counter of a user row stops here
MaxVersion == 2

\* refresh tokens issued in one behaviour
MaxTokens == 2

\* requests served at the same time
Handlers == {1, 2}

\* jwtauth.GenerateRefreshToken: the claims of the token
GenerateRefreshToken(userID, tokenVersion) == [UserID |-> userID, TokenVersion |-> tokenVersion]

\* jwtauth.GetTokenVersion
GetTokenVersion(token) == token.TokenVersion

NoHandler == [op |-> "none", pc |-> "idle", user |-> 0, row |-> 0, tok |-> 0, stale |-> FALSE, res |-> "none"]

\* version: the RefreshTokenVersion column of the users' rows; tokens: the
\* refresh tokens in the order of their issue; revoked: the tokens of a user
\* issued before a LogoutFromAllSessions or ResetPassword of that user
\* succeeded; req: the requests being served
NoAuth ==
  [ version |-> [u \in Users |-> 0], tokens |-> << >>, revoked |-> {},
    req |-> [h \in Handlers |-> NoHandler] ]

AuthIdle == auth = NoAuth

TokensOf(userID) == { n \in 1..Len(auth.tokens) : auth.tokens[n].UserID = userID }

\* handler h has answered: the operation, the refresh token it was given (0
\* for the other operations) and the answer
Ends(h, op, n, res) ==
  [auth.req EXCEPT ![h] = [NoHandler EXCEPT !.op = op, !.tok = n, !.res = res]]

\* repository.SaveUser: db.Save writes every column of the row the caller holds
SaveUser(version, userID, row) == [version EXCEPT ![userID] = row]

\* lines 144-178: Login of a verified user with the right password reads the
\* row and signs a token with the version it read
Login(h) ==
  /\ auth.req[h].pc = "idle"
  /\ Len(auth.tokens) < MaxTokens
  /\ \E userID \in Users, pass \in BOOLEAN :
       IF pass
       THEN auth' = [auth EXCEPT
                       !.tokens = Append(@, GenerateRefreshToken(userID, auth.version[userID])),
                       !.req = Ends(h, "Login", 0, "ok")]
       ELSE auth' = [auth EXCEPT !.req = Ends(h, "Login", 0, "password")]
  /\ UNCHANGED <<hasCache, cache, live, age, r, store, nextID, imp, last, pool, batch, app, rl>>

\* lines 184-188: LogoutFromAllSessions reads the row
LogoutRead(h) ==
  /\ auth.req[h].pc = "idle"
  /\ \E userID \in Users, dbOK \in BOOLEAN :
       /\ auth.version[userID] < MaxVersion
       /\ IF dbOK
          THEN auth' = [auth EXCEPT !.req[h] =
                 [NoHandler EXCEPT !.op = "LogoutFromAllSessions", !.pc = "save",
                                   !.user = userID, !.row = auth.version[userID]]]
          ELSE auth' = [auth EXCEPT !.req = Ends(h, "LogoutFromAllSessions", 0, "repo")]
  /\ UNCHANGED <<hasCache, cache, live, age, r, store, nextID, imp, last, pool, batch, app, rl>>

\* lines 398-418 of ResetPassword: the reset token is looked up in Redis
\* (an error, user 0 for no entry, or a user), the row is read and the
\* password hashed
ResetRead(h) ==
  /\ auth.req[h].pc = "idle"
  /\ \E cacheOK \in BOOLEAN, found \in {0} \cup Users, dbOK \in BOOLEAN, hashed \in BOOLEAN :
       IF ~cacheOK
       THEN auth' = [auth EXCEPT !.req = Ends(h, "ResetPassword", 0, "cache")]
       ELSE IF found = 0
       THEN auth' = [auth EXCEPT !.req = Ends(h, "ResetPassword", 0, "expired")]
       ELSE /\ auth.version[found] < MaxVersion
            /\ IF ~dbOK
               THEN auth' = [auth EXCEPT !.req = Ends(h, "ResetPassword", 0, "repo")]
               ELSE IF ~hashed
               THEN auth' = [auth EXCEPT !.req = Ends(h, "ResetPassword", 0, "hash")]
               ELSE auth' = [auth EXCEPT !.req[h] =
                      [NoHandler EXCEPT !.op = "ResetPassword", !.pc = "save",
                                        !.user = found, !.row = auth.version[found]]]
  /\ UNCHANGED <<hasCache, cache, live, age, r, store, nextID, imp, last, pool, batch, app, rl>>

\* lines 190-199 and 420-435: the version of the row that was read is raised
\* by one and the row saved
RevokeSave(h) ==
  /\ auth.req[h].pc = "save"
  /\ auth.req[h].op \in {"LogoutFromAllSessions", "ResetPassword"}
  /\ LET me == auth.req[h]
     IN \E saved \in BOOLEAN :
          IF saved
          THEN auth' = [auth EXCEPT
                          !.version = SaveUser(@, me.user, me.row + 1),
                          !.revoked = @ \cup TokensOf(me.user),
                          !.req = Ends(h, me.op, 0, "ok")]
          ELSE auth' = [auth EXCEPT !.req = Ends(h, me.op, 0, "repo")]
  /\ UNCHANGED <<hasCache, cache, live, age, r, store, nextID, imp, last, pool, batch, app, rl>>

\* lines 319-337 of RefreshTokens: the token is validated (signature and
\* expiry), the row read and its version compared with the token's
RefreshRead(h) ==
  /\ auth.req[h].pc = "idle"
  /\ \E n \in 1..Len(auth.tokens), valid \in BOOLEAN, dbOK \in BOOLEAN :
       LET token == auth.tokens[n]
           userID == token.UserID
       IN IF ~valid
          THEN auth' = [auth EXCEPT !.req = Ends(h, "RefreshTokens", n, "invalid")]
          ELSE IF ~dbOK
          THEN auth' = [auth EXCEPT !.req = Ends(h, "RefreshTokens", n, "repo")]
          ELSE IF auth.version[userID] # GetTokenVersion(token)
          THEN auth' = [auth EXCEPT !.req = Ends(h, "RefreshTokens", n, "version")]
          ELSE auth' = [auth EXCEPT !.req[h] =
                 [NoHandler EXCEPT !.op = "RefreshTokens", !.pc = "save", !.user = userID,
                                   !.row = auth.version[userID], !.tok = n,
                                   !.stale = n \in auth.revoked]]
  /\ UNCHANGED <<hasCache, cache, live, age, r, store, nextID, imp, last, pool, batch, app, rl>>

\* lines 339-357 of RefreshTokens: the new tokens are signed with the version
\* that was read, and the row that was read is saved
RefreshSave(h) ==
  /\ auth.req[h].pc = "save"
  /\ auth.req[h].op = "RefreshTokens"
  /\ Len(auth.tokens) < MaxTokens
  /\ LET me == auth.req[h]
     IN \E saved \in BOOLEAN :
          IF saved
          THEN auth' = [auth EXCEPT
                          !.version = SaveUser(@, me.user, me.row),
                          !.tokens = Append(@, GenerateRefreshToken(me.user, me.row)),
                          !.req = Ends(h, "RefreshTokens", me.tok, "ok")]
          ELSE auth' = [auth EXCEPT !.req = Ends(h, "RefreshTokens", me.tok, "repo")]
  /\ UNCHANGED <<hasCache, cache, live, age, r, store, nextID, imp, last, pool, batch, app, rl>>

\* the step is the version test of a RefreshTokens call, which the token passed
Passed(h) ==
  /\ auth.req[h].pc = "idle"
  /\ auth'.req[h].pc = "save"
  /\ auth'.req[h].op = "RefreshTokens"

\* the step is the version test of a RefreshTokens call, which the token failed
Failed(h) ==
  /\ auth'.req[h] # auth.req[h]
  /\ auth'.req[h].op = "RefreshTokens"
  /\ auth'.req[h].res = "version"

\* the step is the save of a RefreshTokens call
Saving(h) ==
  /\ auth.req[h].pc = "save"
  /\ auth.req[h].op = "RefreshTokens"
  /\ auth'.req[h].pc = "idle"

\* C30: Revocation by version: a refresh token of a user issued before a
\* LogoutFromAllSessions or ResetPassword of that user succeeded does not pass
\* the version test of a RefreshTokens call made afterwards, a token issued
\* after the last such operation is not turned down by that test, and the
\* save of RefreshTokens leaves every user's token version as it is.
C30_RevocationByVersion ==
  [][ \A h \in Handlers :
        /\ Passed(h) => auth'.req[h].tok \notin auth.revoked
        /\ Failed(h) => auth'.req[h].tok \in auth.revoked
        /\ Saving(h) => auth'.version = auth.version ]_vars


\* ------------------------------------------------------------------------
\* Specifications
\* ------------------------------------------------------------------------
Init ==
  /\ InitEngine
  /\ ServiceIdle
  /\ PoolIdle
  /\ BatchIdle
  /\ HelpersIdle
  /\ RateIdle
  /\ AuthIdle

\* one FetchFaviconBase64 call at a time, step by step
Next ==
  \/ \E u \in InputURLs : Invoke(u)
  \/ Resolve
  \/ Return
  \/ Expire

Spec == Init /\ [][Next]_vars

\* resolutions of example.com, and of a URL that does not parse, while the days pass
NextTTL ==
  \/ \E u \in {U_ex1, U_ex2, U_bad} : Invoke(u)
  \/ Resolve
  \/ Return
  \/ Tick

SpecTTL == Init /\ [][NextTTL]_vars

\* one call at a time, whose ctx the caller may cancel at any point
NextCancel ==
  \/ \E u \in InputURLs : Invoke(u)
  \/ Resolve
  \/ Return
  \/ Cancel

SpecCancel == Init /\ [][NextCancel]_vars

\* requests on the limited endpoints
NextRate ==
  \/ \E i \in 1..MaxConcurrent : RateGet(i)
  \/ \E i \in 1..MaxConcurrent : RateIncr(i)
  \/ WindowExpires

SpecRate == Init /\ [][NextRate]_vars

\* downloads of an image URL, one after the other
NextDownload == Download

SpecDownload == Init /\ [][NextDownload]_vars

\* probes of a site's standard locations, one call after the other
NextProbe == Probe

SpecProbe == Init /\ [][NextProbe]_vars

\* normalizeURL applied to one string after the other
NextNormalize == Normalize

SpecNormalize == Init /\ [][NextNormalize]_vars

\* the bookmark operations of the service, one request at a time
NextService ==
  \/ AddBookmark
  \/ GetBookmarkByID
  \/ PatchBookmark
  \/ DeleteBookmark
  \/ ImportBookmarksV2
  \/ ImportItem
  \/ Expire

SpecService == Init /\ [][NextService]_vars

\* one FetchFaviconBase64 call whose page is any document of LinkDocs
NextCandidates ==
  \/ Invoke(U_ex1)
  \/ CacheCheck
  \/ KnownService
  \/ PageOKWith(LinkDocs)
  \/ Standard
  \/ StandardDownload
  \/ ParseHTML
  \/ Candidate
  \/ Regex
  \/ DefaultIcon
  \/ Store

SpecCandidates == Init /\ [][NextCandidates]_vars

\* one fetchFaviconsParallel call with up to PoolTasks records
NextPool ==
  \/ PoolCall
  \/ PoolRange
  \/ PoolTask
  \/ PoolWait

SpecPool == Init /\ [][NextPool]_vars

\* the Go scheduler lets a runnable goroutine of the call make its step, and
\* every resolution ends (the HTTP client has a timeout)
PoolStep ==
  \/ PoolRange
  \/ PoolTask
  \/ PoolWait

SpecPoolFair == SpecPool /\ WF_vars(PoolStep)

\* fetchFaviconsParallel calls over one cache, record by record
NextBatch ==
  \/ BatchCall
  \/ BatchRange
  \/ \E idx \in Slots : BatchTask(idx)
  \/ BatchWait

SpecBatch == Init /\ [][NextBatch]_vars

\* the requests of the users, each between its read of the row and its save
\* interleaved with the others
NextAuth ==
  \E h \in Handlers :
    \/ Login(h)
    \/ LogoutRead(h)
    \/ ResetRead(h)
    \/ RevokeSave(h)
    \/ RefreshRead(h)
    \/ RefreshSave(h)

SpecAuth == Init /\ [][NextAuth]_vars

====
